---- MODULE Spec2Model ----
(***************************************************************************)
(* A model of tinta: the immutable style-code accumulator (TextStyle), the *)
(* box layout engine (box.render), the shadow overlay (box.applyShadow)    *)
(* and the process-wide color flag.                                        *)
(*                                                                         *)
(* A Go string is a sequence of bytes (0..255).  A Go slice is a triple    *)
(* of a backing array, a length and the array's capacity; a pointer is an  *)
(* index into a store.                                                     *)
(***************************************************************************)
EXTENDS Integers, Sequences, FiniteSets, TLC

VARIABLES
    enabled,    \* output.go: the process-wide color flag
    output,     \* output.go: the default destination of Print, Printf, Println
    mu,         \* output.go: the RWMutex guarding enabled and output
    sinks,      \* every Write call each destination has received so far
    env,        \* the process environment and whether stdout is a terminal
    arrays,     \* the backing arrays of all []string slices allocated so far
    maps,       \* the map[int]struct{} objects allocated so far
    styles,     \* the *TextStyle objects allocated so far
    boxes,      \* the *box objects allocated so far
    made,       \* how each object was derived: its receiver and the call
    cfg,        \* the box value a render call works on
    content,    \* the content string handed to render
    reads,      \* what each isEnabled() call of the running render returned
    pc,         \* where the render call is: "ready", "running", "done", "panic"
    res         \* render's locals at its return: boxRows, boxVisW, rows, out

vars == <<enabled, output, mu, sinks, env, arrays, maps, styles, boxes, made, cfg, content,
          reads, pc, res>>

---------------------------------------------------------------------------
(* output.go: the package-level state *)

\* os.Stdout, the initial default destination
Stdout == "stdout"

\* the zero RWMutex: no writer holds it (0), no reader holds it
MuFree == [writer |-> 0, readers |-> {}]

\* no destination has received a Write call
NoWrites == <<>>

\* an environment with no variable set, stdout not a terminal
NoEnv ==
    [NO_COLOR |-> <<>>, NO_COLORS |-> <<>>, DISABLE_COLORS |-> <<>>,
     FORCE_COLOR |-> <<>>, CLICOLOR_FORCE |-> <<>>, CLICOLOR |-> <<>>,
     TERM |-> <<>>, tty |-> FALSE]

---------------------------------------------------------------------------
(* Bytes *)

ESC == 27
BEL == 7
LF == 10
SP == 32
LBRACKET == 91
RBRACKET == 93
BACKSLASH == 92
SEMI == 59
LowerM == 109
CsiFinalLo == 64
CsiFinalHi == 126

cReset == <<27, 91, 48, 109>>

cBold == <<49>>
cDim == <<50>>
cBlack == <<51, 48>>
cRed == <<51, 49>>
cGreen == <<51, 50>>
cBlue == <<51, 52>>
cBrightBlack == <<57, 48>>
cOnWhite == <<52, 55>>

---------------------------------------------------------------------------
(* The strings package and the range loop over a string *)

Max0(n) == IF n < 0 THEN 0 ELSE n

RECURSIVE Repeat(_, _)
Repeat(s, n) == IF n <= 0 THEN <<>> ELSE s \o Repeat(s, n - 1)

Spaces(n) == Repeat(<<SP>>, n)

\* strings.IndexByte, 1-based; 0 when c does not occur
IndexByte(s, c) ==
    IF \E i \in 1..Len(s) : s[i] = c
    THEN CHOOSE i \in 1..Len(s) : s[i] = c /\ \A j \in 1..(i - 1) : s[j] # c
    ELSE 0

RECURSIVE SplitOn(_, _)
SplitOn(s, c) ==
    LET i == IndexByte(s, c)
    IN  IF i = 0 THEN <<s>>
        ELSE <<SubSeq(s, 1, i - 1)>> \o SplitOn(SubSeq(s, i + 1, Len(s)), c)

\* strings.Split(s, "\n")
Split(s) == SplitOn(s, LF)

IsSpaceByte(c) == c \in {9, 10, 11, 12, 13, 32}

RECURSIVE TrimLeft(_)
TrimLeft(s) ==
    IF Len(s) > 0 /\ IsSpaceByte(s[1]) THEN TrimLeft(Tail(s)) ELSE s

RECURSIVE TrimRight(_)
TrimRight(s) ==
    IF Len(s) > 0 /\ IsSpaceByte(s[Len(s)])
    THEN TrimRight(SubSeq(s, 1, Len(s) - 1)) ELSE s

TrimSpace(s) == TrimRight(TrimLeft(s))

IsCont(s, p) == p <= Len(s) /\ s[p] >= 128 /\ s[p] <= 191

\* The number of bytes the rune starting at s[p] takes; an invalid or cut
\* encoding is one rune (U+FFFD) of one byte.
RuneLen(s, p) ==
    LET c == s[p]
        second(lo, hi) == p + 1 <= Len(s) /\ s[p + 1] >= lo /\ s[p + 1] <= hi
    IN  IF c < 128 THEN 1
        ELSE IF c >= 194 /\ c <= 223
             THEN (IF second(128, 191) THEN 2 ELSE 1)
        ELSE IF c >= 224 /\ c <= 239
             THEN (IF second(IF c = 224 THEN 160 ELSE 128,
                             IF c = 237 THEN 159 ELSE 191) /\ IsCont(s, p + 2)
                   THEN 3 ELSE 1)
        ELSE IF c >= 240 /\ c <= 244
             THEN (IF second(IF c = 240 THEN 144 ELSE 128,
                             IF c = 244 THEN 143 ELSE 191)
                      /\ IsCont(s, p + 2) /\ IsCont(s, p + 3)
                   THEN 4 ELSE 1)
        ELSE 1

RECURSIVE RuneCountFrom(_, _)
RuneCountFrom(s, p) ==
    IF p > Len(s) THEN 0 ELSE 1 + RuneCountFrom(s, p + RuneLen(s, p))

RuneCount(s) == RuneCountFrom(s, 1)

---------------------------------------------------------------------------
(* output.go: stripANSI and visibleWidth *)

\* The CSI loop `for j < len(s) && s[j] < 0x40 || s[j] > 0x7E`: the position
\* of the final byte, or 0 when the loop indexes s past its end (a panic).
RECURSIVE csiScan(_, _)
csiScan(s, p) ==
    IF p > Len(s) THEN 0
    ELSE IF s[p] < CsiFinalLo \/ s[p] > CsiFinalHi THEN csiScan(s, p + 1)
    ELSE p

\* The OSC loop: the position after the terminator (BEL, or ESC \).
RECURSIVE oscScan(_, _)
oscScan(s, p) ==
    IF p > Len(s) THEN p
    ELSE IF s[p] = BEL THEN p + 1
    ELSE IF s[p] = ESC /\ p + 1 <= Len(s) /\ s[p + 1] = BACKSLASH THEN p + 2
    ELSE oscScan(s, p + 1)

\* The main loop from position p on: what it writes, and whether it panics.
RECURSIVE stripFrom(_, _)
stripFrom(s, p) ==
    IF p > Len(s) THEN [ok |-> TRUE, out |-> <<>>]
    ELSE IF s[p] # ESC
         THEN LET r == stripFrom(s, p + 1)
              IN  [ok |-> r.ok, out |-> <<s[p]>> \o r.out]
    ELSE IF p + 1 > Len(s) THEN [ok |-> TRUE, out |-> <<>>]
    ELSE IF s[p + 1] = LBRACKET
         THEN LET j == csiScan(s, p + 2)
              IN  IF j = 0 THEN [ok |-> FALSE, out |-> <<>>]
                  ELSE stripFrom(s, j + 1)
    ELSE IF s[p + 1] = RBRACKET THEN stripFrom(s, oscScan(s, p + 2))
    ELSE stripFrom(s, p + 2)

stripPanics(s) == IndexByte(s, ESC) > 0 /\ ~stripFrom(s, 1).ok

stripANSI(s) == IF IndexByte(s, ESC) = 0 THEN s ELSE stripFrom(s, 1).out

visibleWidth(s) == RuneCount(stripANSI(s))

---------------------------------------------------------------------------
(* text.go: TextStyle.render *)

RECURSIVE JoinCodes(_)
JoinCodes(codes) ==
    IF Len(codes) = 0 THEN <<>>
    ELSE IF Len(codes) = 1 THEN codes[1]
    ELSE codes[1] \o <<SEMI>> \o JoinCodes(Tail(codes))

\* render without the isEnabled() test
TextRenderAlways(codes, s, en) ==
    IF Len(codes) = 0 THEN s
    ELSE <<ESC, LBRACKET>> \o JoinCodes(codes) \o <<LowerM>> \o s \o cReset

\* t.render(s) when isEnabled() returns en
TextRender(codes, s, en) ==
    IF ~en \/ Len(codes) = 0 THEN s
    ELSE <<ESC, LBRACKET>> \o JoinCodes(codes) \o <<LowerM>> \o s \o cReset

---------------------------------------------------------------------------
(* Go slices and append.  A slice is [arr, len]: arr indexes `arrays`      *)
(* (0 is the nil slice), and the capacity is the length of that array.     *)

NilSlice == [arr |-> 0, len |-> 0]

ZeroStrings(n) == [k \in 1..n |-> <<>>]

SliceCap(A, sl) == IF sl.arr = 0 THEN 0 ELSE Len(A[sl.arr])

\* the elements of a slice
SliceVal(A, sl) == IF sl.arr = 0 THEN <<>> ELSE SubSeq(A[sl.arr], 1, sl.len)

\* make([]string, len(v)) followed by copy: a fresh array holding v
makeCopy(A, v) ==
    [arrays |-> Append(A, v), slice |-> [arr |-> Len(A) + 1, len |-> Len(v)]]

\* append(sl, x): in place when the capacity allows it, else into a fresh
\* array of twice the capacity
goAppend(A, sl, x) ==
    IF sl.len < SliceCap(A, sl)
    THEN [arrays |-> [A EXCEPT ![sl.arr][sl.len + 1] = x],
          slice |-> [arr |-> sl.arr, len |-> sl.len + 1]]
    ELSE LET newCap == IF SliceCap(A, sl) = 0 THEN 1 ELSE 2 * SliceCap(A, sl)
         IN  [arrays |-> Append(A, SliceVal(A, sl) \o <<x>>
                                   \o ZeroStrings(newCap - sl.len - 1)),
              slice |-> [arr |-> Len(A) + 1, len |-> sl.len + 1]]

---------------------------------------------------------------------------
(* text.go: Text and TextStyle.with *)

\* with that appends to the receiver's own slice and returns the receiver
textWithInPlace(A, S, i, code) ==
    LET r == goAppend(A, S[i].codes, code)
    IN  [arrays |-> r.arrays,
         styles |-> Append([S EXCEPT ![i] = [codes |-> r.slice]],
                           [codes |-> r.slice])]

\* with that puts the new code first
textWithPrepend(A, S, i, code) ==
    LET old == SliceVal(A, S[i].codes)
    IN  [arrays |-> Append(A, <<code>> \o old),
         styles |-> Append(S, [codes |-> [arr |-> Len(A) + 1,
                                          len |-> Len(old) + 1]])]

\* t.with(code) for the style S[i]: the stores after the call, the new
\* style last
textWith(A, S, i, code) ==
    LET old == SliceVal(A, S[i].codes)
        cp == makeCopy(A, old \o <<<<>>>>)
    IN  [arrays |-> [cp.arrays EXCEPT ![cp.slice.arr][Len(old) + 1] = code],
         styles |-> Append(S, [codes |-> cp.slice])]

CodesIn(A, S, i) == SliceVal(A, S[i].codes)

StyleCodes(i) == CodesIn(arrays, styles, i)

---------------------------------------------------------------------------
(* box.go: borders, shadow styles, the box value *)

Glyph(b2, b3) == <<226, b2, b3>>

BorderSimple ==
    [TopLeft |-> Glyph(148, 140), TopRight |-> Glyph(148, 144),
     BottomLeft |-> Glyph(148, 148), BottomRight |-> Glyph(148, 152),
     Horizontal |-> Glyph(148, 128), Vertical |-> Glyph(148, 130)]

BorderRounded ==
    [TopLeft |-> Glyph(149, 173), TopRight |-> Glyph(149, 174),
     BottomLeft |-> Glyph(149, 176), BottomRight |-> Glyph(149, 175),
     Horizontal |-> Glyph(148, 128), Vertical |-> Glyph(148, 130)]

BorderDouble ==
    [TopLeft |-> Glyph(149, 148), TopRight |-> Glyph(149, 151),
     BottomLeft |-> Glyph(149, 154), BottomRight |-> Glyph(149, 157),
     Horizontal |-> Glyph(149, 144), Vertical |-> Glyph(149, 145)]

BorderHeavy ==
    [TopLeft |-> Glyph(148, 143), TopRight |-> Glyph(148, 147),
     BottomLeft |-> Glyph(148, 151), BottomRight |-> Glyph(148, 155),
     Horizontal |-> Glyph(148, 129), Vertical |-> Glyph(148, 131)]

ShadowOf(g) ==
    [TopLeft |-> g, TopRight |-> g, BottomLeft |-> g, BottomRight |-> g,
     Horizontal |-> g, Vertical |-> g]

ShadowLight == ShadowOf(Glyph(150, 145))
ShadowMedium == ShadowOf(Glyph(150, 146))
ShadowDark == ShadowOf(Glyph(150, 147))
ShadowBlock == ShadowOf(Glyph(150, 136))

ShadowBottomRight == 0
ShadowBottomLeft == 1
ShadowTopRight == 2
ShadowTopLeft == 3

\* Box(): the zero box with the simple border.  shadow is <<>> for a nil
\* pointer and <<sty>> for a pointer to sty.
NewBox ==
    [border |-> BorderSimple, codes |-> <<>>,
     padTop |-> 0, padRight |-> 0, padBottom |-> 0, padLeft |-> 0,
     marginTop |-> 0, marginRight |-> 0, marginBottom |-> 0, marginLeft |-> 0,
     center |-> FALSE, centerTrim |-> FALSE, centerLines |-> {},
     centerFirst |-> FALSE, centerLast |-> FALSE,
     hideTop |-> FALSE, hideBottom |-> FALSE,
     hideLeft |-> FALSE, hideRight |-> FALSE,
     shadow |-> <<>>, shadowPos |-> ShadowBottomRight, shadowCodes |-> <<>>]

---------------------------------------------------------------------------
(* box.go: the box behind a BoxStyle handle, copyBox, the chaining methods. *)
(* A box object holds its codes and shadowCodes as slices and its           *)
(* centerLines as a map reference into `maps` (0 is the nil map).           *)

\* &box{border: BorderSimple}
NewBoxObj ==
    [NewBox EXCEPT !.codes = NilSlice, !.centerLines = 0, !.shadowCodes = NilSlice]

\* the configuration a box object holds, slices and map dereferenced
BoxVal(A, M, o) ==
    [o EXCEPT !.codes = SliceVal(A, o.codes),
              !.centerLines = IF o.centerLines = 0 THEN {} ELSE M[o.centerLines],
              !.shadowCodes = SliceVal(A, o.shadowCodes)]

\* a copy that shares the receiver's slices and map
copyBoxShallow(A, M, o) == [arrays |-> A, maps |-> M, box |-> o]

\* copyBox(b): the stores after the call and the copy
copyBox(A, M, o) ==
    LET c1 == IF o.codes.len > 0 THEN makeCopy(A, SliceVal(A, o.codes))
              ELSE [arrays |-> A, slice |-> o.codes]
        hasLines == o.centerLines # 0 /\ M[o.centerLines] # {}
        c2 == IF o.shadowCodes.len > 0
              THEN makeCopy(c1.arrays, SliceVal(c1.arrays, o.shadowCodes))
              ELSE [arrays |-> c1.arrays, slice |-> o.shadowCodes]
    IN  [arrays |-> c2.arrays,
         maps |-> IF hasLines THEN Append(M, M[o.centerLines]) ELSE M,
         box |-> [o EXCEPT !.codes = c1.slice,
                           !.centerLines = IF hasLines THEN Len(M) + 1 ELSE @,
                           !.shadowCodes = c2.slice]]

\* the fields a Padding* method assigns
setPadding(o, kind, n) ==
    CASE kind = "Padding" ->
            [o EXCEPT !.padTop = n, !.padRight = n, !.padBottom = n, !.padLeft = n]
      [] kind = "PaddingTop" -> [o EXCEPT !.padTop = n]
      [] kind = "PaddingBottom" -> [o EXCEPT !.padBottom = n]
      [] kind = "PaddingLeft" -> [o EXCEPT !.padLeft = n]
      [] kind = "PaddingRight" -> [o EXCEPT !.padRight = n]
      [] kind = "PaddingX" -> [o EXCEPT !.padLeft = n, !.padRight = n]
      [] kind = "PaddingY" -> [o EXCEPT !.padTop = n, !.padBottom = n]

\* the fields a Margin* method assigns
setMargin(o, kind, n) ==
    CASE kind = "Margin" ->
            [o EXCEPT !.marginTop = n, !.marginRight = n,
                      !.marginBottom = n, !.marginLeft = n]
      [] kind = "MarginTop" -> [o EXCEPT !.marginTop = n]
      [] kind = "MarginBottom" -> [o EXCEPT !.marginBottom = n]
      [] kind = "MarginLeft" -> [o EXCEPT !.marginLeft = n]
      [] kind = "MarginRight" -> [o EXCEPT !.marginRight = n]
      [] kind = "MarginX" -> [o EXCEPT !.marginLeft = n, !.marginRight = n]
      [] kind = "MarginY" -> [o EXCEPT !.marginTop = n, !.marginBottom = n]

\* the field a Disable* method assigns
setHidden(o, side) ==
    CASE side = "Top" -> [o EXCEPT !.hideTop = TRUE]
      [] side = "Bottom" -> [o EXCEPT !.hideBottom = TRUE]
      [] side = "Left" -> [o EXCEPT !.hideLeft = TRUE]
      [] side = "Right" -> [o EXCEPT !.hideRight = TRUE]

---------------------------------------------------------------------------
(* box.go: wrapCodes *)

\* wrapCodes(s, codes) when its isEnabled() call returns en
wrapCodes(s, codes, en) ==
    IF ~en \/ Len(codes) = 0 THEN s
    ELSE <<ESC, LBRACKET>> \o JoinCodes(codes) \o <<LowerM>> \o s \o cReset

wrapStyle(b, s, en) == wrapCodes(s, b.codes, en)

\* wrapShadow using the frame's codes
wrapShadowInFrameCodes(b, s, en) == wrapCodes(s, b.codes, en)

wrapShadow(b, s, en) == wrapCodes(s, b.shadowCodes, en)

---------------------------------------------------------------------------
(* box.go: render.  en[k] is what the k-th isEnabled() call of this render *)
(* call returns (every wrapCodes call makes exactly one).                  *)

\* linesOf that drops empty lines
linesOfNonEmpty(b, s) ==
    LET raw == SelectSeq(Split(s), LAMBDA l : Len(l) > 0)
    IN  IF b.centerTrim THEN [i \in 1..Len(raw) |-> TrimSpace(raw[i])] ELSE raw

\* render, lines 534-541
linesOf(b, s) ==
    LET raw == Split(s)
    IN  IF b.centerTrim THEN [i \in 1..Len(raw) |-> TrimSpace(raw[i])] ELSE raw

\* maxWidth measuring the bytes of each line, escape sequences included
RECURSIVE maxWidthRaw(_)
maxWidthRaw(lines) ==
    IF Len(lines) = 0 THEN 0
    ELSE LET w == RuneCount(lines[1])
             m == maxWidthRaw(Tail(lines))
         IN  IF w > m THEN w ELSE m

RECURSIVE maxWidth(_)
maxWidth(lines) ==
    IF Len(lines) = 0 THEN 0
    ELSE LET w == visibleWidth(lines[1])
             m == maxWidth(Tail(lines))
         IN  IF w > m THEN w ELSE m

\* innerWidth without the right padding
innerWidthLeftOnly(b, lines) == maxWidth(lines) + b.padLeft

\* render, line 553
innerWidth(b, lines) == maxWidth(lines) + b.padLeft + b.padRight

\* sideGlyph with nothing in place of a hidden glyph
sideGlyphDropped(hidden, g) == IF hidden THEN <<>> ELSE g

\* render, lines 556-563 and 570-577: a glyph of a hidden side
sideGlyph(hidden, g) == IF hidden THEN Spaces(visibleWidth(g)) ELSE g

\* shouldCenter looking up the set with a 1-based index
shouldCenterOneBased(b, i, lastIdx) ==
    \/ b.center
    \/ (i + 1) \in b.centerLines
    \/ (b.centerFirst /\ i = 0)
    \/ (b.centerLast /\ i = lastIdx)

\* shouldCenter without the centerLast test
shouldCenterNoLast(b, i, lastIdx) ==
    \/ b.center
    \/ i \in b.centerLines
    \/ (b.centerFirst /\ i = 0)

\* render, lines 595-605; i is the 0-based line index
shouldCenter(b, i, lastIdx) ==
    \/ b.center
    \/ i \in b.centerLines
    \/ (b.centerFirst /\ i = 0)
    \/ (b.centerLast /\ i = lastIdx)

\* centerPads with the odd column given to the left
centerPadsLeftHeavy(sc, vis, availW) ==
    IF sc /\ vis < availW
    THEN LET total == availW - vis
             leftPad == (total + 1) \div 2
         IN  [left |-> leftPad, right |-> total - leftPad]
    ELSE [left |-> 0, right |-> Max0(availW - vis)]

\* render, lines 607-617
centerPads(sc, vis, availW) ==
    IF sc /\ vis < availW
    THEN LET total == availW - vis
             leftPad == total \div 2
         IN  [left |-> leftPad, right |-> total - leftPad]
    ELSE [left |-> 0, right |-> Max0(availW - vis)]

\* contentRow with the whole row wrapped once
contentRowWrappedOnce(b, line, pads, enLeft, enRight) ==
    wrapStyle(b, sideGlyph(b.hideLeft, b.border.Vertical)
                   \o Spaces(b.padLeft + pads.left)
                   \o line
                   \o Spaces(pads.right + b.padRight)
                   \o sideGlyph(b.hideRight, b.border.Vertical), enLeft)

\* render, lines 620-622
contentRow(b, line, pads, enLeft, enRight) ==
    wrapStyle(b, sideGlyph(b.hideLeft, b.border.Vertical)
                   \o Spaces(b.padLeft + pads.left), enLeft)
    \o line
    \o wrapStyle(b, Spaces(pads.right + b.padRight)
                      \o sideGlyph(b.hideRight, b.border.Vertical), enRight)

\* render, lines 584 and 628
padLine(b, innerW) ==
    sideGlyph(b.hideLeft, b.border.Vertical) \o Spaces(innerW)
    \o sideGlyph(b.hideRight, b.border.Vertical)

\* render, lines 569-580
topBar(b, innerW) ==
    sideGlyph(b.hideLeft, b.border.TopLeft)
    \o Repeat(b.border.Horizontal, innerW)
    \o sideGlyph(b.hideRight, b.border.TopRight)

\* render, lines 633-644
botBar(b, innerW) ==
    sideGlyph(b.hideLeft, b.border.BottomLeft)
    \o Repeat(b.border.Horizontal, innerW)
    \o sideGlyph(b.hideRight, b.border.BottomRight)

\* render, lines 565-644: the rows before the shadow
boxRowsOf(b, s, en) ==
    LET lines == linesOf(b, s)
        n == Len(lines)
        innerW == innerWidth(b, lines)
        availW == innerW - b.padLeft - b.padRight
        kTop == IF b.hideTop THEN 0 ELSE 1
        kPad == kTop + Max0(b.padTop)
        kCon == kPad + 2 * n
        kBot == kCon + Max0(b.padBottom)
        top == IF b.hideTop THEN <<>>
               ELSE <<wrapStyle(b, topBar(b, innerW), en[1])>>
        padTopRows == [j \in 1..Max0(b.padTop) |->
                          wrapStyle(b, padLine(b, innerW), en[kTop + j])]
        contentRows ==
            [i \in 1..n |->
                contentRow(b, lines[i],
                           centerPads(shouldCenter(b, i - 1, n - 1),
                                      visibleWidth(lines[i]), availW),
                           en[kPad + 2 * i - 1], en[kPad + 2 * i])]
        padBottomRows == [j \in 1..Max0(b.padBottom) |->
                             wrapStyle(b, padLine(b, innerW), en[kCon + j])]
        bottom == IF b.hideBottom THEN <<>>
                  ELSE <<wrapStyle(b, botBar(b, innerW), en[kBot + 1])>>
    IN  top \o padTopRows \o contentRows \o padBottomRows \o bottom

\* the isEnabled() calls render makes before applyShadow
wrapsBeforeShadow(b, s) ==
    (IF b.hideTop THEN 0 ELSE 1) + Max0(b.padTop) + 2 * Len(linesOf(b, s))
    + Max0(b.padBottom) + (IF b.hideBottom THEN 0 ELSE 1)

---------------------------------------------------------------------------
(* box.go: applyShadow.  k is the number of isEnabled() calls made so far. *)

\* shadowHCount without the two corner columns taken off
shadowHCountFullWidth(sty, boxVisW) ==
    LET horzW == visibleWidth(sty.Horizontal)
    IN  IF horzW > 0 THEN Max0(boxVisW) \div horzW ELSE 0

\* shadowHCount rounding up
shadowHCountRoundUp(sty, boxVisW) ==
    LET vertW == visibleWidth(sty.Vertical)
        horzW == visibleWidth(sty.Horizontal)
        hFill == Max0(boxVisW - 2 * vertW)
    IN  IF horzW > 0 THEN (hFill + horzW - 1) \div horzW ELSE 0

\* applyShadow, lines 725-739
shadowHCount(sty, boxVisW) ==
    LET vertW == visibleWidth(sty.Vertical)
        horzW == visibleWidth(sty.Horizontal)
        hFill == Max0(boxVisW - 2 * vertW)
    IN  IF horzW > 0 THEN hFill \div horzW ELSE 0

\* applyShadow with the vertical glyph beside row 0 in the bottom positions
applyShadowNoSpacer(b, rows, boxVisW, en, k) ==
    LET sty == b.shadow[1]
        n == Len(rows)
        shadowV == wrapShadow(b, sty.Vertical, en[k + 1])
        spacer == Spaces(visibleWidth(sty.Vertical))
        fill == Repeat(sty.Horizontal, shadowHCount(sty, boxVisW))
        lowBar == sty.BottomLeft \o fill \o sty.BottomRight
        highBar == sty.TopLeft \o fill \o sty.TopRight
        kBar == IF n > 1 THEN k + 3 ELSE k + 2
    IN  IF n = 0 THEN rows
        ELSE CASE b.shadowPos = ShadowBottomRight ->
                  <<rows[1] \o shadowV>>
                  \o (IF n > 1
                      THEN <<rows[2] \o wrapShadow(b, sty.TopRight, en[k + 2])>>
                           \o [i \in 1..(n - 2) |-> rows[i + 2] \o shadowV]
                      ELSE <<>>)
                  \o <<spacer \o wrapShadow(b, lowBar, en[kBar])>>
             [] b.shadowPos = ShadowBottomLeft ->
                  <<shadowV \o rows[1]>>
                  \o (IF n > 1
                      THEN <<wrapShadow(b, sty.TopLeft, en[k + 2]) \o rows[2]>>
                           \o [i \in 1..(n - 2) |-> shadowV \o rows[i + 2]]
                      ELSE <<>>)
                  \o <<wrapShadow(b, lowBar, en[kBar]) \o spacer>>
             [] b.shadowPos = ShadowTopRight ->
                  <<spacer \o wrapShadow(b, highBar, en[k + 2])>>
                  \o [i \in 1..(n - 1) |-> rows[i] \o shadowV]
                  \o <<rows[n] \o wrapShadow(b, sty.BottomRight, en[k + 3])>>
             [] b.shadowPos = ShadowTopLeft ->
                  <<wrapShadow(b, highBar, en[k + 2]) \o spacer>>
                  \o [i \in 1..(n - 1) |-> shadowV \o rows[i]]
                  \o <<wrapShadow(b, sty.BottomLeft, en[k + 3]) \o rows[n]>>
             [] OTHER -> rows

\* applyShadow, lines 714-806
applyShadow(b, rows, boxVisW, en, k) ==
    LET sty == b.shadow[1]
        n == Len(rows)
        shadowV == wrapShadow(b, sty.Vertical, en[k + 1])
        spacer == Spaces(visibleWidth(sty.Vertical))
        fill == Repeat(sty.Horizontal, shadowHCount(sty, boxVisW))
        lowBar == sty.BottomLeft \o fill \o sty.BottomRight
        highBar == sty.TopLeft \o fill \o sty.TopRight
        kBar == IF n > 1 THEN k + 3 ELSE k + 2
    IN  IF n = 0 THEN rows
        ELSE CASE b.shadowPos = ShadowBottomRight ->
                  <<rows[1] \o spacer>>
                  \o (IF n > 1
                      THEN <<rows[2] \o wrapShadow(b, sty.TopRight, en[k + 2])>>
                           \o [i \in 1..(n - 2) |-> rows[i + 2] \o shadowV]
                      ELSE <<>>)
                  \o <<spacer \o wrapShadow(b, lowBar, en[kBar])>>
             [] b.shadowPos = ShadowBottomLeft ->
                  <<spacer \o rows[1]>>
                  \o (IF n > 1
                      THEN <<wrapShadow(b, sty.TopLeft, en[k + 2]) \o rows[2]>>
                           \o [i \in 1..(n - 2) |-> shadowV \o rows[i + 2]]
                      ELSE <<>>)
                  \o <<wrapShadow(b, lowBar, en[kBar]) \o spacer>>
             [] b.shadowPos = ShadowTopRight ->
                  <<spacer \o wrapShadow(b, highBar, en[k + 2])>>
                  \o [i \in 1..(n - 1) |-> rows[i] \o shadowV]
                  \o <<rows[n] \o wrapShadow(b, sty.BottomRight, en[k + 3])>>
             [] b.shadowPos = ShadowTopLeft ->
                  <<wrapShadow(b, highBar, en[k + 2]) \o spacer>>
                  \o [i \in 1..(n - 1) |-> shadowV \o rows[i]]
                  \o <<wrapShadow(b, sty.BottomLeft, en[k + 3]) \o rows[n]>>
             [] OTHER -> rows

\* the isEnabled() calls applyShadow makes on n rows
wrapsOfShadow(b, n) ==
    IF n = 0 THEN 0
    ELSE IF b.shadowPos \in {ShadowBottomRight, ShadowBottomLeft}
         THEN (IF n > 1 THEN 3 ELSE 2)
    ELSE IF b.shadowPos \in {ShadowTopRight, ShadowTopLeft} THEN 3
    ELSE 1

---------------------------------------------------------------------------
(* box.go: render, the assembly with margins and line breaks *)

\* rowBreak with a line break after the shadow's last row too
rowBreakAfterShadow(hasShadow, bottomBorderIdx, lastRow, i) ==
    IF hasShadow THEN i <= lastRow
    ELSE IF bottomBorderIdx >= 0 /\ i = bottomBorderIdx THEN FALSE
    ELSE TRUE

\* rowBreak with no line break after the last row, whatever it is
rowBreakNeverLast(hasShadow, bottomBorderIdx, lastRow, i) == i < lastRow

\* render, lines 685-694: whether row i (0-based) is followed by a line break
rowBreak(hasShadow, bottomBorderIdx, lastRow, i) ==
    IF hasShadow THEN i < lastRow
    ELSE IF bottomBorderIdx >= 0 /\ i = bottomBorderIdx THEN FALSE
    ELSE TRUE

RECURSIVE joinRows(_, _, _, _, _)
joinRows(b, rows, hasShadow, bottomBorderIdx, i) ==
    IF i >= Len(rows) THEN <<>>
    ELSE Spaces(b.marginLeft) \o rows[i + 1] \o Spaces(b.marginRight)
         \o (IF rowBreak(hasShadow, bottomBorderIdx, Len(rows) - 1, i)
             THEN <<LF>> ELSE <<>>)
         \o joinRows(b, rows, hasShadow, bottomBorderIdx, i + 1)

\* assemble writing no right margin
assembleNoRightMargin(b, boxRows, rows) ==
    LET bottomBorderIdx == IF b.hideBottom THEN -1 ELSE Len(boxRows) - 1
    IN  Repeat(<<LF>>, b.marginTop)
        \o joinRows([b EXCEPT !.marginRight = 0], rows, Len(b.shadow) > 0,
                    bottomBorderIdx, 0)
        \o Repeat(<<LF>>, b.marginBottom)

\* render, lines 654-701
assemble(b, boxRows, rows) ==
    LET bottomBorderIdx == IF b.hideBottom THEN -1 ELSE Len(boxRows) - 1
    IN  Repeat(<<LF>>, b.marginTop)
        \o joinRows(b, rows, Len(b.shadow) > 0, bottomBorderIdx, 0)
        \o Repeat(<<LF>>, b.marginBottom)

\* render: its locals when it returns
RenderWith(b, s, en) ==
    LET boxRows == boxRowsOf(b, s, en)
        boxVisW == IF Len(boxRows) > 0 THEN visibleWidth(boxRows[1]) ELSE 0
        rows == IF Len(b.shadow) > 0
                THEN applyShadow(b, boxRows, boxVisW, en, wrapsBeforeShadow(b, s))
                ELSE boxRows
    IN  [boxRows |-> boxRows, boxVisW |-> boxVisW, rows |-> rows,
         out |-> assemble(b, boxRows, rows)]

\* the isEnabled() calls of one render call
NumWraps(b, s) ==
    wrapsBeforeShadow(b, s)
    + (IF Len(b.shadow) > 0
       THEN wrapsOfShadow(b, Len(boxRowsOf(b, s, [k \in 1..wrapsBeforeShadow(b, s) |-> FALSE])))
       ELSE 0)

\* Whether render panics: stripANSI indexing past the end of a string, or
\* strings.Repeat with a negative count.
RenderPanics(b, s, en) ==
    LET lines == linesOf(b, s)
        n == Len(lines)
        bd == b.border
    IN  \/ \E i \in 1..n : stripPanics(lines[i])
        \/ (b.hideLeft \/ b.hideRight) /\ stripPanics(bd.Vertical)
        \/ ~b.hideTop /\ \/ b.hideLeft /\ stripPanics(bd.TopLeft)
                         \/ b.hideRight /\ stripPanics(bd.TopRight)
        \/ ~b.hideBottom /\ \/ b.hideLeft /\ stripPanics(bd.BottomLeft)
                            \/ b.hideRight /\ stripPanics(bd.BottomRight)
        \/ /\ ~b.hideTop \/ b.padTop > 0 \/ b.padBottom > 0 \/ ~b.hideBottom
           /\ (\A i \in 1..n : ~stripPanics(lines[i])) /\ innerWidth(b, lines) < 0
        \/ /\ \A i \in 1..n : ~stripPanics(lines[i])
           /\ \E i \in 1..n :
                LET pads == centerPads(shouldCenter(b, i - 1, n - 1),
                                       visibleWidth(lines[i]), maxWidth(lines))
                IN  b.padLeft + pads.left < 0 \/ pads.right + b.padRight < 0
        \/ stripPanics(boxRowsOf(b, s, en)[1])
        \/ Len(b.shadow) > 0
           /\ (stripPanics(b.shadow[1].Vertical) \/ stripPanics(b.shadow[1].Horizontal))
        \/ b.marginLeft < 0 \/ b.marginRight < 0


---------------------------------------------------------------------------
(* The render harness: a box value, a content string and the color flag    *)
(* are drawn from bounded sets, and render runs on them.                   *)

MaxPad == 1
MaxMargin == 1

Borders == {BorderSimple, BorderDouble}

CodeLists == {<<>>, <<cRed>>, <<cOnWhite, cRed>>}

Paddings ==
    {[t |-> 0, r |-> 0, b |-> 0, l |-> 0]}
    \cup {[t |-> n, r |-> n + 1, b |-> n, l |-> n - 1] : n \in 1..MaxPad}

Margins ==
    {[t |-> 0, r |-> 0, b |-> 0, l |-> 0]}
    \cup {[t |-> n, r |-> n, b |-> n, l |-> n + 1] : n \in 1..MaxMargin}

Aligns ==
    {[center |-> FALSE, centerTrim |-> FALSE, centerLines |-> {},
      centerFirst |-> FALSE, centerLast |-> FALSE],
     [center |-> TRUE, centerTrim |-> FALSE, centerLines |-> {},
      centerFirst |-> FALSE, centerLast |-> FALSE],
     [center |-> TRUE, centerTrim |-> TRUE, centerLines |-> {},
      centerFirst |-> FALSE, centerLast |-> FALSE],
     [center |-> FALSE, centerTrim |-> FALSE, centerLines |-> {-1, 1, 5},
      centerFirst |-> FALSE, centerLast |-> FALSE],
     [center |-> FALSE, centerTrim |-> FALSE, centerLines |-> {},
      centerFirst |-> TRUE, centerLast |-> TRUE]}

Hides ==
    {[t |-> FALSE, b |-> FALSE, l |-> FALSE, r |-> FALSE],
     [t |-> FALSE, b |-> TRUE, l |-> FALSE, r |-> FALSE],
     [t |-> TRUE, b |-> FALSE, l |-> TRUE, r |-> FALSE],
     [t |-> TRUE, b |-> TRUE, l |-> TRUE, r |-> TRUE]}

\* a user-supplied ShadowStyle whose vertical glyph is two columns wide
ShadowWide ==
    [TopLeft |-> <<35>>, TopRight |-> <<35>>, BottomLeft |-> <<35>>,
     BottomRight |-> <<35>>, Horizontal |-> <<61>>, Vertical |-> <<35, 35>>]

\* a user-supplied ShadowStyle with six different one-column glyphs
ShadowLines ==
    [TopLeft |-> Glyph(149, 173), TopRight |-> Glyph(149, 174),
     BottomLeft |-> Glyph(149, 176), BottomRight |-> Glyph(149, 175),
     Horizontal |-> Glyph(148, 128), Vertical |-> Glyph(148, 130)]

ShadowPositions ==
    {ShadowBottomRight, ShadowBottomLeft, ShadowTopRight, ShadowTopLeft}

Shadows ==
    {[shadow |-> <<>>, pos |-> ShadowBottomRight, codes |-> <<>>],
     [shadow |-> <<ShadowLight>>, pos |-> ShadowBottomRight,
      codes |-> <<cBrightBlack>>],
     [shadow |-> <<ShadowWide>>, pos |-> ShadowBottomRight,
      codes |-> <<cBrightBlack, cDim>>]}
    \cup {[shadow |-> <<ShadowLines>>, pos |-> p, codes |-> <<cBrightBlack>>] :
             p \in ShadowPositions}

Configs ==
    {[border |-> bd, codes |-> cs,
      padTop |-> pd.t, padRight |-> pd.r, padBottom |-> pd.b, padLeft |-> pd.l,
      marginTop |-> mg.t, marginRight |-> mg.r,
      marginBottom |-> mg.b, marginLeft |-> mg.l,
      center |-> al.center, centerTrim |-> al.centerTrim,
      centerLines |-> al.centerLines,
      centerFirst |-> al.centerFirst, centerLast |-> al.centerLast,
      hideTop |-> hd.t, hideBottom |-> hd.b, hideLeft |-> hd.l, hideRight |-> hd.r,
      shadow |-> sh.shadow, shadowPos |-> sh.pos, shadowCodes |-> sh.codes] :
        bd \in Borders, cs \in CodeLists, pd \in Paddings, mg \in Margins,
        al \in Aligns, hd \in Hides, sh \in Shadows}

AllOn == [k \in 1..64 |-> TRUE]

\* "", "hi", "abcd\nx", " x \nabc", a styled run, a nested colored box, a line
\* ending in a lone ESC, one ending inside an OSC sequence, one ending
\* inside a CSI sequence
Contents ==
    {<<>>,
     <<104, 105>>,
     <<97, 98, 99, 100, LF, 120>>,
     <<SP, 120, SP, LF, 97, 98, 99>>,
     TextRender(<<cRed, cBold>>, <<104, 105>>, TRUE),
     RenderWith([NewBox EXCEPT !.codes = <<cBlue>>], <<120>>, AllOn).out,
     <<97, ESC>>,
     <<97, ESC, RBRACKET, 48>>,
     <<97, ESC, LBRACKET, 51>>}

EmptyRes == [boxRows |-> <<>>, boxVisW |-> 0, rows |-> <<>>, out |-> <<>>]

InitRender ==
    /\ enabled \in BOOLEAN
    /\ cfg \in Configs
    /\ content \in Contents
    /\ arrays = <<>> /\ maps = <<>> /\ styles = <<>> /\ boxes = <<>> /\ made = <<>>
    /\ reads = <<>>
    /\ pc = "ready"
    /\ res = EmptyRes
    /\ output = Stdout /\ mu = MuFree /\ sinks = NoWrites /\ env = NoEnv

\* b.String(content) with no concurrent ForceColors: every isEnabled() call
\* returns the same value
Render ==
    /\ pc = "ready"
    /\ LET en == [k \in 1..NumWraps(cfg, content) |-> enabled]
       IN  IF RenderPanics(cfg, content, en)
           THEN pc' = "panic" /\ reads' = <<>> /\ res' = EmptyRes
           ELSE pc' = "done" /\ reads' = en /\ res' = RenderWith(cfg, content, en)
    /\ UNCHANGED <<env, output, mu, sinks, enabled, arrays, maps, styles, boxes, made, cfg, content>>

\* Text()...String(content), the style holding the codes cfg.codes
RenderText ==
    /\ pc = "ready"
    /\ pc' = "text"
    /\ reads' = <<enabled>>
    /\ res' = [EmptyRes EXCEPT !.out = TextRender(cfg.codes, content, enabled)]
    /\ UNCHANGED <<env, output, mu, sinks, enabled, arrays, maps, styles, boxes, made, cfg, content>>

NextRender == Render \/ RenderText

SpecRender == InitRender /\ [][NextRender]_vars


---------------------------------------------------------------------------
(* Properties of render *)

EscPrefix(codes) == <<ESC, LBRACKET>> \o JoinCodes(codes) \o <<LowerM>>

CountByte(s, c) == Cardinality({i \in 1..Len(s) : s[i] = c})

NoEsc(s) == \A i \in 1..Len(s) : s[i] # ESC

EndsWith(s, t) ==
    Len(t) <= Len(s) /\ SubSeq(s, Len(s) - Len(t) + 1, Len(s)) = t

Occurrences(t, s) ==
    Cardinality({i \in 1..(Len(s) - Len(t) + 1) : SubSeq(s, i, i + Len(t) - 1) = t})

\* the number of rows before the first content row
RowsAbove(b) == (IF b.hideTop THEN 0 ELSE 1) + Max0(b.padTop)

\* row = pre L cReset line pre R cReset, with no ESC in L and R, and R
\* ending in the right border glyph
WrappedAround(row, pre, line, rightGlyph) ==
    \E a \in 0..Len(row) :
        LET lo == Len(pre) + a
            mid == lo + Len(cReset) + Len(line)
            hi == Len(row) - Len(cReset)
        IN  /\ mid + Len(pre) <= hi
            /\ SubSeq(row, 1, Len(pre)) = pre
            /\ NoEsc(SubSeq(row, Len(pre) + 1, lo))
            /\ SubSeq(row, lo + 1, lo + Len(cReset)) = cReset
            /\ SubSeq(row, lo + Len(cReset) + 1, mid) = line
            /\ SubSeq(row, mid + 1, mid + Len(pre)) = pre
            /\ NoEsc(SubSeq(row, mid + Len(pre) + 1, hi))
            /\ EndsWith(SubSeq(row, mid + Len(pre) + 1, hi), rightGlyph)
            /\ SubSeq(row, hi + 1, Len(row)) = cReset

C6_CenterSplit ==
    pc = "done" =>
        LET lines == linesOf(cfg, content)
            n == Len(lines)
            availW == maxWidth(lines)
        IN  \A i \in 1..n :
                LET vis == visibleWidth(lines[i])
                    total == availW - vis
                    leftExtra == total \div 2
                    rightExtra == total - leftExtra
                IN  (shouldCenter(cfg, i - 1, n - 1) /\ vis < availW) =>
                        /\ rightExtra - leftExtra \in {0, 1}
                        /\ leftExtra + vis + rightExtra = availW
                        /\ res.boxRows[RowsAbove(cfg) + i] =
                              wrapStyle(cfg, sideGlyph(cfg.hideLeft, cfg.border.Vertical)
                                             \o Spaces(cfg.padLeft + leftExtra), enabled)
                              \o lines[i]
                              \o wrapStyle(cfg, Spaces(rightExtra + cfg.padRight)
                                                \o sideGlyph(cfg.hideRight, cfg.border.Vertical),
                                           enabled)

C6_Witness ==
    /\ pc = "done" /\ cfg.center /\ ~cfg.centerTrim /\ ~enabled
    /\ cfg.padLeft = 0 /\ cfg.padRight = 2 /\ ~cfg.hideLeft /\ ~cfg.hideRight
    /\ content = <<97, 98, 99, 100, LF, 120>>
    /\ res.boxRows[RowsAbove(cfg) + 2] =
          cfg.border.Vertical \o <<SP, 120, SP, SP, SP, SP>> \o cfg.border.Vertical

\* C7: with color disabled, or with no codes, a text style renders its
\* input unchanged, the empty string included; with color disabled, a box
\* with frame and shadow codes emits no escape byte in any row.
C7_DisabledIsIdentity ==
    /\ (pc = "text" /\ (~enabled \/ Len(cfg.codes) = 0)) => res.out = content
    /\ (pc = "done" /\ ~enabled) =>
          /\ CountByte(res.out, ESC) = CountByte(content, ESC)
          /\ res.out = RenderWith([cfg EXCEPT !.codes = <<>>, !.shadowCodes = <<>>],
                                  content, AllOn).out

C7_Witness ==
    /\ pc = "text" /\ ~enabled /\ Len(cfg.codes) = 2
    /\ content = <<>> /\ res.out = <<>>

LastRowLine(b, rows) ==
    Spaces(b.marginLeft) \o rows[Len(rows)] \o Spaces(b.marginRight)

\* C9 as stated: with no bottom margin the last structural row is never
\* followed by a line break, in all three cases.
C9_Original ==
    (pc = "done" /\ cfg.marginBottom = 0) =>
        EndsWith(res.out, LastRowLine(cfg, res.rows))

\* C9 as amended: with no bottom margin the last structural row is not
\* followed by a line break when it is the visible bottom border or the
\* shadow's last row; when the bottom side is disabled and there is no
\* shadow, the last padding/content row is followed by a line break.
C9_NoBreakAfterBorderOrShadow ==
    (pc = "done" /\ cfg.marginBottom = 0) =>
        IF ~cfg.hideBottom \/ Len(cfg.shadow) > 0
        THEN EndsWith(res.out, LastRowLine(cfg, res.rows))
        ELSE EndsWith(res.out, LastRowLine(cfg, res.rows) \o <<LF>>)

C9_Witness ==
    /\ pc = "done" /\ cfg.marginBottom = 0
    /\ cfg.hideBottom /\ Len(cfg.shadow) > 0
    /\ cfg.shadowPos = ShadowBottomLeft
    /\ EndsWith(res.out, LastRowLine(cfg, res.rows))

\* C10: with the bottom side disabled and no shadow, the rendered string
\* has a line break after the last content/padding row: splitting it on
\* line breaks yields the rows and one trailing empty element.
C10_BreakAfterLastRowWhenBottomHidden ==
    (pc = "done" /\ cfg.hideBottom /\ Len(cfg.shadow) = 0) =>
        LET parts == Split(res.out)
            n == Len(res.rows)
        IN  /\ Len(parts) = cfg.marginTop + n + cfg.marginBottom + 1
            /\ parts[cfg.marginTop + n] = LastRowLine(cfg, res.rows)
            /\ parts[Len(parts)] = <<>>
            /\ res.out[Len(res.out)] = LF

C10_Witness ==
    /\ pc = "done" /\ cfg = [NewBox EXCEPT !.hideBottom = TRUE]
    /\ content = <<104, 105>>
    /\ Split(res.out) =
          <<BorderSimple.TopLeft \o BorderSimple.Horizontal \o BorderSimple.Horizontal
               \o BorderSimple.TopRight,
            BorderSimple.Vertical \o <<104, 105>> \o BorderSimple.Vertical,
            <<>>>>


RECURSIVE oscClosed(_, _)
oscClosed(s, p) ==
    IF p > Len(s) THEN FALSE
    ELSE IF s[p] = BEL THEN TRUE
    ELSE IF s[p] = ESC /\ p + 1 <= Len(s) /\ s[p + 1] = BACKSLASH THEN TRUE
    ELSE oscClosed(s, p + 1)

\* whether s, read as stripANSI reads it from position p, ends inside an
\* escape sequence: a lone ESC, a CSI with no final byte, an open OSC
RECURSIVE endsInsideEscape(_, _)
endsInsideEscape(s, p) ==
    IF p > Len(s) THEN FALSE
    ELSE IF s[p] # ESC THEN endsInsideEscape(s, p + 1)
    ELSE IF p + 1 > Len(s) THEN TRUE
    ELSE IF s[p + 1] = LBRACKET
         THEN (IF csiScan(s, p + 2) = 0 THEN TRUE
               ELSE endsInsideEscape(s, csiScan(s, p + 2) + 1))
    ELSE IF s[p + 1] = RBRACKET
         THEN (IF ~oscClosed(s, p + 2) THEN TRUE
               ELSE endsInsideEscape(s, oscScan(s, p + 2)))
    ELSE endsInsideEscape(s, p + 2)

ShadowGlyphsOf(sty) ==
    {sty.TopLeft, sty.TopRight, sty.BottomLeft, sty.BottomRight,
     sty.Horizontal, sty.Vertical}

\* one column wide, and no escape byte
UnitGlyph(g) == visibleWidth(g) = 1 /\ NoEsc(g)

ShadowGrowsByOne ==
    /\ Len(res.rows) = Len(res.boxRows) + 1
    /\ \A r \in 1..Len(res.rows) : visibleWidth(res.rows[r]) = res.boxVisW + 1

\* C4 as stated: for every box with a shadow, every position and every
\* shadow glyph set, the overlay returns one more row than it was given and
\* every returned row is one column wider than the box.
C4_Original ==
    (pc = "done" /\ Len(cfg.shadow) > 0) => ShadowGrowsByOne

\* C4 as amended: the same, for the shadow glyph sets whose six glyphs are
\* each one visible column wide (the four presets are), over rows that share
\* a visible width of at least 2 and do not end inside an escape sequence.
C4_ShadowAddsOneRowOneColumn ==
    (/\ pc = "done" /\ Len(cfg.shadow) > 0
     /\ cfg.shadowPos \in ShadowPositions
     /\ \A g \in ShadowGlyphsOf(cfg.shadow[1]) : UnitGlyph(g)
     /\ res.boxVisW >= 2
     /\ \A r \in 1..Len(res.boxRows) :
            /\ visibleWidth(res.boxRows[r]) = res.boxVisW
            /\ ~endsInsideEscape(res.boxRows[r], 1))
    => ShadowGrowsByOne

C4_Witness ==
    /\ pc = "done" /\ enabled /\ cfg.shadow = <<ShadowLines>>
    /\ cfg.shadowPos = ShadowTopLeft
    /\ Len(res.boxRows) > 2
    /\ \A r \in 1..Len(res.boxRows) :
            /\ visibleWidth(res.boxRows[r]) = res.boxVisW
            /\ ~endsInsideEscape(res.boxRows[r], 1)
    /\ ShadowGrowsByOne


---------------------------------------------------------------------------
(* Claims about the rows of the layout, under SpecRender *)

\* a chrome segment as the render that ran emitted it
Chrome(x) ==
    IF enabled /\ Len(cfg.codes) > 0 THEN EscPrefix(cfg.codes) \o x \o cReset
    ELSE x

MaxFill == 12

IsTopBorder(row) ==
    \E w \in 0..MaxFill :
        row = Chrome(sideGlyph(cfg.hideLeft, cfg.border.TopLeft)
                     \o Repeat(cfg.border.Horizontal, w)
                     \o sideGlyph(cfg.hideRight, cfg.border.TopRight))

IsBottomBorder(row) ==
    \E w \in 0..MaxFill :
        row = Chrome(sideGlyph(cfg.hideLeft, cfg.border.BottomLeft)
                     \o Repeat(cfg.border.Horizontal, w)
                     \o sideGlyph(cfg.hideRight, cfg.border.BottomRight))

IsPaddingRow(row) ==
    \E w \in 0..MaxFill :
        row = Chrome(sideGlyph(cfg.hideLeft, cfg.border.Vertical)
                     \o Spaces(w)
                     \o sideGlyph(cfg.hideRight, cfg.border.Vertical))

IsContentRow(row, line) ==
    \E a, c \in 0..MaxFill :
        row = Chrome(sideGlyph(cfg.hideLeft, cfg.border.Vertical) \o Spaces(a))
              \o line
              \o Chrome(Spaces(c) \o sideGlyph(cfg.hideRight, cfg.border.Vertical))

\* C11: before shadow and margin the layout has (1 if the top is visible)
\* + topPadding + n + bottomPadding + (1 if the bottom is visible) rows, in
\* that order, n being 1 + the number of line breaks of the content; a
\* disabled top or bottom side leaves no row at all.
C11_RowCountAndOrder ==
    pc = "done" =>
        LET n == 1 + CountByte(content, LF)
            top == IF cfg.hideTop THEN 0 ELSE 1
            bot == IF cfg.hideBottom THEN 0 ELSE 1
            rows == res.boxRows
            lines == IF cfg.centerTrim
                     THEN [i \in 1..n |-> TrimSpace(Split(content)[i])]
                     ELSE Split(content)
        IN  /\ Len(rows) = top + cfg.padTop + n + cfg.padBottom + bot
            /\ top = 1 => IsTopBorder(rows[1])
            /\ \A j \in 1..cfg.padTop : IsPaddingRow(rows[top + j])
            /\ \A i \in 1..n : IsContentRow(rows[top + cfg.padTop + i], lines[i])
            /\ \A j \in 1..cfg.padBottom :
                   IsPaddingRow(rows[top + cfg.padTop + n + j])
            /\ bot = 1 => IsBottomBorder(rows[Len(rows)])

C11_Witness ==
    /\ pc = "done" /\ content = <<>> /\ cfg = NewBox
    /\ Len(res.boxRows) = 3
    /\ res.boxRows[2] = BorderSimple.Vertical \o BorderSimple.Vertical


\* the rows of the same box with both vertical sides enabled
RowsWithSides == 
    RenderWith([cfg EXCEPT !.hideLeft = FALSE, !.hideRight = FALSE],
               content, reads).boxRows

\* row is full with the glyph at its left end (after the escape prefix, if
\* the chrome is styled) replaced by spaces of the glyph's visible width
\* when the left side is hidden, and likewise at its right end (before the
\* reset)
SidesBlanked(row, full) ==
    LET styled == enabled /\ Len(cfg.codes) > 0
        off == IF styled THEN Len(EscPrefix(cfg.codes)) ELSE 0
        tail == IF styled THEN Len(cReset) ELSE 0
    IN  \E gl, gr \in 1..3 :
            LET leftG == SubSeq(full, off + 1, off + gl)
                rightG == SubSeq(full, Len(full) - tail - gr + 1, Len(full) - tail)
                middle == SubSeq(full, off + gl + 1, Len(full) - tail - gr)
            IN  /\ off + gl + gr + tail <= Len(full)
                /\ NoEsc(leftG) /\ NoEsc(rightG)
                /\ row = SubSeq(full, 1, off)
                         \o (IF cfg.hideLeft THEN Spaces(visibleWidth(leftG)) ELSE leftG)
                         \o middle
                         \o (IF cfg.hideRight THEN Spaces(visibleWidth(rightG)) ELSE rightG)
                         \o SubSeq(full, Len(full) - tail + 1, Len(full))

LinesClosed ==
    \A i \in 1..Len(linesOf(cfg, content)) :
        ~endsInsideEscape(linesOf(cfg, content)[i], 1)

PresetBorders == {BorderSimple, BorderRounded, BorderDouble, BorderHeavy}

RowsShareWidth ==
    \A r \in 1..Len(res.boxRows) :
        visibleWidth(res.boxRows[r]) =
            maxWidth(linesOf(cfg, content)) + cfg.padLeft + cfg.padRight + 2

---------------------------------------------------------------------------
(* The text style program: styles are derived from Text() and from each    *)
(* other, the color flag is forced, and styles are rendered.               *)

MaxStyles == 4

TextCodes == {cRed, cBold}

TextInputs == {<<>>, <<104, 105>>}

InitText ==
    /\ enabled \in BOOLEAN
    /\ arrays = <<>>
    /\ styles = <<[codes |-> NilSlice]>>
    /\ made = <<[from |-> 0, code |-> <<>>]>>
    /\ content \in TextInputs
    /\ maps = <<>> /\ boxes = <<>>
    /\ cfg = 0
    /\ reads = <<>>
    /\ pc = "ready"
    /\ res = EmptyRes
    /\ output = Stdout /\ mu = MuFree /\ sinks = NoWrites /\ env = NoEnv

\* one of t.Red(), t.Bold(), ...: t.with(code)
StyleWith(i, code) ==
    /\ Len(styles) < MaxStyles
    /\ LET r == textWith(arrays, styles, i, code)
       IN  arrays' = r.arrays /\ styles' = r.styles
    /\ made' = Append(made, [from |-> i, code |-> code])
    /\ UNCHANGED <<env, output, mu, sinks, enabled, maps, boxes, cfg, content, reads, pc, res>>

\* t.String(content) for the style styles[i]
StyleString(i) ==
    /\ cfg' = i
    /\ pc' = "text"
    /\ reads' = <<enabled>>
    /\ res' = [EmptyRes EXCEPT !.out = TextRender(StyleCodes(i), content, enabled)]
    /\ UNCHANGED <<env, output, mu, sinks, enabled, arrays, maps, styles, boxes, made, content>>

\* ForceColors(on)
ForceColors(on) ==
    /\ enabled # on
    /\ enabled' = on
    /\ UNCHANGED <<env, output, mu, sinks, arrays, maps, styles, boxes, made, cfg, content, reads, pc, res>>

NextText ==
    \/ \E i \in 1..Len(styles), code \in TextCodes : StyleWith(i, code)
    \/ \E i \in 1..Len(styles) : StyleString(i)
    \/ \E on \in BOOLEAN : ForceColors(on)

SpecText == InitText /\ [][NextText]_vars

\* the codes appended, in order, to make the style styles[i]
RECURSIVE AppendedCodes(_)
AppendedCodes(i) ==
    IF made[i].from = 0 THEN <<>>
    ELSE AppendedCodes(made[i].from) \o <<made[i].code>>

StyleStringOn(i, s) == TextRender(StyleCodes(i), s, TRUE)

\* C2: no append made from a style changes what that style, or any other
\* existing style, renders; and each derived style renders its receiver's
\* codes followed by its own appended code, whatever siblings were made.
C2_TextStyleImmutable ==
    [][/\ \A i \in 1..Len(styles), s \in TextInputs :
              StyleStringOn(i, s)' = StyleStringOn(i, s)
       /\ \A i \in 1..Len(styles'), s \in TextInputs :
              made'[i].from > 0 =>
                 LET parent == CodesIn(arrays', styles', made'[i].from)
                 IN  /\ StyleCodes(i)' = parent \o <<made'[i].code>>
                     /\ StyleStringOn(i, s)' =
                           EscPrefix(parent \o <<made'[i].code>>)
                           \o s \o cReset]_vars

C2_Witness ==
    /\ pc = "text" /\ reads = <<TRUE>> /\ cfg = 2 /\ Len(styles) >= 4
    /\ made[3].from = 2 /\ made[4].from = 2 /\ made[3].code # made[4].code
    /\ res.out = EscPrefix(<<made[2].code>>) \o content \o cReset

\* C8: when the render reads the color flag as enabled and the codes c1..ck
\* were appended in that order, k >= 1, rendering s yields ESC [ c1 ; ... ; ck m s ESC [ 0 m: between the
\* opening bytes and the first m stand exactly the codes, once each, in
\* append order, and s follows verbatim, also when s is empty.
C8_CodesInAppendOrder ==
    (pc = "text" /\ reads = <<TRUE>> /\ Len(AppendedCodes(cfg)) > 0) =>
        LET m == IndexByte(res.out, LowerM)
        IN  /\ m > 2
            /\ SubSeq(res.out, 1, 2) = <<ESC, LBRACKET>>
            /\ SplitOn(SubSeq(res.out, 3, m - 1), SEMI) = AppendedCodes(cfg)
            /\ SubSeq(res.out, m + 1, Len(res.out)) = content \o cReset

C8_Witness ==
    /\ pc = "text" /\ reads = <<TRUE>> /\ content = <<>>
    /\ AppendedCodes(cfg) = <<cRed, cBold, cRed>>
    /\ res.out = <<ESC, LBRACKET, 51, 49, SEMI, 49, SEMI, 51, 49, LowerM,
                   ESC, LBRACKET, 48, LowerM>>


---------------------------------------------------------------------------
(* The chaining program: box styles are derived from Box() and from each   *)
(* other by the chaining methods.                                          *)

MaxBoxes == 3

BorderArgs == {BorderRounded, BorderDouble}

PaddingCalls ==
    {<<"Padding", 1>>, <<"PaddingLeft", 2>>, <<"PaddingX", -1>>, <<"PaddingY", 1>>}

MarginCalls == {<<"Margin", 1>>, <<"MarginTop", -1>>, <<"MarginX", 2>>}

LineArgs == {0, 1}

Sides == {"Top", "Bottom", "Left", "Right"}

ShadowCalls == {<<ShadowBottomRight, ShadowLight>>, <<ShadowTopLeft, ShadowLines>>}

ShadowColorCodes == {cDim, cBlack}

FrameCodes == {cRed, cBold}

ChainInputs == {<<104, 105, LF, 120>>}

InitChain ==
    /\ enabled = TRUE
    /\ arrays = <<>> /\ maps = <<>> /\ styles = <<>>
    /\ boxes = <<NewBoxObj>>
    /\ made = <<[from |-> 0, op |-> <<"Box">>]>>
    /\ cfg = 0
    /\ content \in ChainInputs
    /\ reads = <<>>
    /\ pc = "ready"
    /\ res = EmptyRes
    /\ output = Stdout /\ mu = MuFree /\ sinks = NoWrites /\ env = NoEnv

\* the new box becomes reachable through a new handle
Returned(A, M, o, i, op) ==
    /\ Len(boxes) < MaxBoxes
    /\ arrays' = A /\ maps' = M
    /\ boxes' = Append(boxes, o)
    /\ made' = Append(made, [from |-> i, op |-> op])
    /\ UNCHANGED <<env, output, mu, sinks, enabled, styles, cfg, content, reads, pc, res>>

\* b.Border(bd), b.BorderSimple(), ..., b.BorderHeavy()
SetBorder(i, bd) ==
    LET c == copyBox(arrays, maps, boxes[i])
    IN  Returned(c.arrays, c.maps, [c.box EXCEPT !.border = bd], i, <<"Border", bd>>)

\* b.Padding(n), b.PaddingTop(n), ..., b.PaddingY(n)
SetPadding(i, kind, n) ==
    LET c == copyBox(arrays, maps, boxes[i])
    IN  Returned(c.arrays, c.maps, setPadding(c.box, kind, n), i, <<kind, n>>)

\* b.Margin(n), b.MarginTop(n), ..., b.MarginY(n)
SetMargin(i, kind, n) ==
    LET c == copyBox(arrays, maps, boxes[i])
    IN  Returned(c.arrays, c.maps, setMargin(c.box, kind, n), i, <<kind, n>>)

\* b.Center()
Center(i) ==
    LET c == copyBox(arrays, maps, boxes[i])
    IN  Returned(c.arrays, c.maps, [c.box EXCEPT !.center = TRUE], i, <<"Center">>)

\* b.CenterTrim()
CenterTrim(i) ==
    LET c == copyBox(arrays, maps, boxes[i])
    IN  Returned(c.arrays, c.maps,
                 [c.box EXCEPT !.center = TRUE, !.centerTrim = TRUE],
                 i, <<"CenterTrim">>)

\* b.CenterLine(n)
CenterLine(i, n) ==
    LET c == copyBox(arrays, maps, boxes[i])
    IN  IF c.box.centerLines = 0
        THEN Returned(c.arrays, Append(c.maps, {n}),
                      [c.box EXCEPT !.centerLines = Len(c.maps) + 1],
                      i, <<"CenterLine", n>>)
        ELSE Returned(c.arrays,
                      [c.maps EXCEPT ![c.box.centerLines] = @ \cup {n}],
                      c.box, i, <<"CenterLine", n>>)

\* b.CenterFirstLine()
CenterFirstLine(i) ==
    LET c == copyBox(arrays, maps, boxes[i])
    IN  Returned(c.arrays, c.maps, [c.box EXCEPT !.centerFirst = TRUE],
                 i, <<"CenterFirstLine">>)

\* b.CenterLastLine()
CenterLastLine(i) ==
    LET c == copyBox(arrays, maps, boxes[i])
    IN  Returned(c.arrays, c.maps, [c.box EXCEPT !.centerLast = TRUE],
                 i, <<"CenterLastLine">>)

\* b.DisableTop(), b.DisableBottom(), b.DisableLeft(), b.DisableRight()
Disable(i, side) ==
    LET c == copyBox(arrays, maps, boxes[i])
    IN  Returned(c.arrays, c.maps, setHidden(c.box, side), i, <<"Disable", side>>)

\* b.Shadow(pos, sty)
Shadow(i, pos, sty) ==
    LET c == copyBox(arrays, maps, boxes[i])
        d == IF c.box.shadowCodes.len = 0
             THEN makeCopy(c.arrays, <<cBrightBlack>>)
             ELSE [arrays |-> c.arrays, slice |-> c.box.shadowCodes]
    IN  Returned(d.arrays, c.maps,
                 [c.box EXCEPT !.shadow = <<sty>>, !.shadowPos = pos,
                               !.shadowCodes = d.slice],
                 i, <<"Shadow", pos>>)

\* b.ShadowDim(), b.ShadowBlack(), b.ShadowBrightBlack()
ShadowColor(i, code) ==
    LET c == copyBox(arrays, maps, boxes[i])
        a == goAppend(c.arrays, c.box.shadowCodes, code)
    IN  Returned(a.arrays, c.maps, [c.box EXCEPT !.shadowCodes = a.slice],
                 i, <<"ShadowColor", code>>)

\* b.withCode(code): b.Red(), b.OnWhite(), b.Bold(), ...
withCode(i, code) ==
    LET c == copyBox(arrays, maps, boxes[i])
        a == goAppend(c.arrays, c.box.codes, code)
    IN  Returned(a.arrays, c.maps, [c.box EXCEPT !.codes = a.slice],
                 i, <<"withCode", code>>)

NextChain ==
    \/ \E i \in 1..Len(boxes), bd \in BorderArgs : SetBorder(i, bd)
    \/ \E i \in 1..Len(boxes), call \in PaddingCalls : SetPadding(i, call[1], call[2])
    \/ \E i \in 1..Len(boxes), call \in MarginCalls : SetMargin(i, call[1], call[2])
    \/ \E i \in 1..Len(boxes) : Center(i)
    \/ \E i \in 1..Len(boxes) : CenterTrim(i)
    \/ \E i \in 1..Len(boxes), n \in LineArgs : CenterLine(i, n)
    \/ \E i \in 1..Len(boxes) : CenterFirstLine(i)
    \/ \E i \in 1..Len(boxes) : CenterLastLine(i)
    \/ \E i \in 1..Len(boxes), side \in Sides : Disable(i, side)
    \/ \E i \in 1..Len(boxes), call \in ShadowCalls : Shadow(i, call[1], call[2])
    \/ \E i \in 1..Len(boxes), code \in ShadowColorCodes : ShadowColor(i, code)
    \/ \E i \in 1..Len(boxes), code \in FrameCodes : withCode(i, code)

SpecChain == InitChain /\ [][NextChain]_vars

\* what b.String(s) does for the configuration b with color enabled: the
\* string, or a panic
StringOf(b, s) ==
    IF RenderPanics(b, s, AllOn) THEN <<"panic">>
    ELSE <<"ok", RenderWith(b, s, AllOn).out>>

\* C3: every chaining operation adds one new box and leaves every existing
\* box, the receiver included, with the configuration it had: frame codes,
\* centered-line set, shadow glyphs and shadow codes included; and the
\* receiver renders the same string after the operation as before.
C3_ChainingLeavesReceiver ==
    [][/\ Len(boxes') = Len(boxes) + 1
       /\ \A i \in 1..Len(boxes) :
             BoxVal(arrays', maps', boxes'[i]) = BoxVal(arrays, maps, boxes[i])
       /\ LET r == made'[Len(boxes')].from
          IN  /\ r \in 1..Len(boxes)
              /\ \A s \in ChainInputs :
                    StringOf(BoxVal(arrays', maps', boxes'[r]), s)
                       = StringOf(BoxVal(arrays, maps, boxes[r]), s)]_vars

C3_Witness ==
    /\ Len(boxes) = 3
    /\ made[2] = [from |-> 1, op |-> <<"CenterLine", 0>>]
    /\ made[3] = [from |-> 2, op |-> <<"CenterLine", 1>>]
    /\ BoxVal(arrays, maps, boxes[1]).centerLines = {}
    /\ BoxVal(arrays, maps, boxes[2]).centerLines = {0}
    /\ BoxVal(arrays, maps, boxes[3]).centerLines = {0, 1}


---------------------------------------------------------------------------
(* The concurrent program: one goroutine renders a box with b.String while *)
(* another calls ForceColors.  Every isEnabled() call of the render reads  *)
(* the flag under the mutex, so it is one atomic step; the steps of the    *)
(* two goroutines interleave freely.                                       *)

ConcConfigs ==
    {[NewBox EXCEPT !.codes = <<cRed>>],
     [NewBox EXCEPT !.codes = <<cRed>>, !.shadow = <<ShadowLight>>,
                    !.shadowCodes = <<cBrightBlack>>],
     [NewBox EXCEPT !.shadow = <<ShadowLight>>, !.shadowCodes = <<cBrightBlack>>,
                    !.hideTop = TRUE]}

ConcContents == {<<104, 105>>}

AllOff == [k \in 1..64 |-> FALSE]

InitConc ==
    /\ enabled \in BOOLEAN
    /\ cfg \in ConcConfigs
    /\ content \in ConcContents
    /\ arrays = <<>> /\ maps = <<>> /\ styles = <<>> /\ boxes = <<>> /\ made = <<>>
    /\ reads = <<>>
    /\ pc = "ready"
    /\ res = EmptyRes
    /\ output = Stdout /\ mu = MuFree /\ sinks = NoWrites /\ env = NoEnv

\* b.String(content) is called
StringCall ==
    /\ pc = "ready"
    /\ pc' = "rendering"
    /\ UNCHANGED <<env, output, mu, sinks, enabled, arrays, maps, styles, boxes, made, cfg, content, reads, res>>

\* the render's next wrapCodes call reads the flag with isEnabled()
WrapReadsFlag ==
    /\ pc = "rendering"
    /\ Len(reads) < NumWraps(cfg, content)
    /\ reads' = Append(reads, enabled)
    /\ UNCHANGED <<env, output, mu, sinks, enabled, arrays, maps, styles, boxes, made, cfg, content, pc, res>>

\* b.String(content) returns
StringReturn ==
    /\ pc = "rendering"
    /\ Len(reads) = NumWraps(cfg, content)
    /\ pc' = "done"
    /\ res' = RenderWith(cfg, content, reads)
    /\ UNCHANGED <<env, output, mu, sinks, enabled, arrays, maps, styles, boxes, made, cfg, content, reads>>

NextConc ==
    \/ StringCall
    \/ WrapReadsFlag
    \/ StringReturn
    \/ \E on \in BOOLEAN : ForceColors(on)

SpecConc == InitConc /\ [][NextConc]_vars

\* C5: a box render that runs while ForceColors is called returns either
\* the fully styled rendering or the fully plain rendering of its box and
\* content, never a mix of wrapped and unwrapped chrome segments.
C5_RenderSeesOneFlagValue ==
    pc = "done" =>
        res.out \in {RenderWith(cfg, content, AllOn).out,
                     RenderWith(cfg, content, AllOff).out}


---------------------------------------------------------------------------
(* The escape stripper on its own: stripANSI and visibleWidth are called   *)
(* on byte strings, and stripANSI again on its own result.                 *)

MaxStripLen == 4

\* ESC, '[', ']', 'm' (a CSI final byte), '3' (a CSI parameter byte), BEL,
\* '\', and the two bytes of U+00E9
StripBytes == {ESC, LBRACKET, RBRACKET, LowerM, 51, BEL, BACKSLASH, 195, 169}

RECURSIVE StringsUpTo(_)
StringsUpTo(n) ==
    IF n = 0 THEN {<<>>}
    ELSE LET shorter == StringsUpTo(n - 1)
         IN  shorter \cup {Append(t, c) : t \in {u \in shorter : Len(u) = n - 1},
                                          c \in StripBytes}

InitStrip ==
    /\ enabled = TRUE
    /\ arrays = <<>> /\ maps = <<>> /\ styles = <<>> /\ boxes = <<>> /\ made = <<>>
    /\ cfg = 0
    /\ content \in StringsUpTo(MaxStripLen)
    /\ reads = <<>>
    /\ pc = "ready"
    /\ res = EmptyRes
    /\ output = Stdout /\ mu = MuFree /\ sinks = NoWrites /\ env = NoEnv

\* t := stripANSI(content)
StripCall ==
    /\ pc = "ready"
    /\ IF stripPanics(content)
       THEN pc' = "panic" /\ res' = res
       ELSE pc' = "stripped" /\ res' = [res EXCEPT !.out = stripANSI(content)]
    /\ UNCHANGED <<env, output, mu, sinks, enabled, arrays, maps, styles, boxes, made, cfg, content, reads>>

\* stripANSI(t), t the result of the first call
StripAgain ==
    /\ pc = "stripped"
    /\ IF stripPanics(res.out)
       THEN pc' = "panic" /\ res' = res
       ELSE pc' = "restripped" /\ res' = [res EXCEPT !.rows = <<stripANSI(res.out)>>]
    /\ UNCHANGED <<env, output, mu, sinks, enabled, arrays, maps, styles, boxes, made, cfg, content, reads>>

\* visibleWidth(content)
WidthCall ==
    /\ pc = "ready"
    /\ IF stripPanics(content)
       THEN pc' = "panic" /\ res' = res
       ELSE pc' = "measured" /\ res' = [res EXCEPT !.boxVisW = visibleWidth(content)]
    /\ UNCHANGED <<env, output, mu, sinks, enabled, arrays, maps, styles, boxes, made, cfg, content, reads>>

NextStrip == StripCall \/ StripAgain \/ WidthCall

SpecStrip == InitStrip /\ [][NextStrip]_vars

\* C14: for every string s, visibleWidth(stripANSI(s)) = visibleWidth(s),
\* stripping twice gives what stripping once gives, and a string with no
\* ESC byte is returned unchanged: each call returns, with these results.
C14_StripKeepsWidth ==
    /\ pc # "panic"
    /\ pc = "measured" => res.boxVisW = RuneCount(stripANSI(stripANSI(content)))
    /\ pc = "stripped" => (NoEsc(content) => res.out = content)
    /\ pc = "restripped" => res.rows[1] = res.out


\* t is s with some of its bytes removed, the others in order
RECURSIVE IsSubsequence(_, _)
IsSubsequence(t, s) ==
    IF t = <<>> THEN TRUE
    ELSE IF s = <<>> THEN FALSE
    ELSE IF t[1] = s[1] THEN IsSubsequence(Tail(t), Tail(s))
    ELSE IsSubsequence(t, Tail(s))

\* the bytes of s before its first ESC
BeforeFirstEsc(s) ==
    IF IndexByte(s, ESC) = 0 THEN s ELSE SubSeq(s, 1, IndexByte(s, ESC) - 1)

\* C29: stripANSI returns a result for every byte string, one that ends
\* inside an unterminated CSI or OSC sequence or on a lone ESC included:
\* the scan never passes the end of the input, the result has no ESC byte,
\* and the bytes outside escape sequences are kept in order.
C29_StripAlwaysReturns ==
    /\ pc \in {"ready", "stripped", "restripped", "measured"}
    /\ pc = "stripped" =>
          /\ NoEsc(res.out)
          /\ IsSubsequence(res.out, content)
          /\ SubSeq(res.out, 1, Len(BeforeFirstEsc(content))) = BeforeFirstEsc(content)


---------------------------------------------------------------------------
(* Concurrent branching: goroutines derive a style or a box from one       *)
(* shared ancestor, or render the ancestor, with no synchronization.  Each *)
(* step of a goroutine is one access to the memory of slices: make, the    *)
(* copy of one element, the store of the new code, the render.             *)

NThreads == 2

Threads == 1..NThreads

\* what a goroutine runs: t.with(code) then String, b.withCode(code) then
\* String, or String on the ancestor itself
Programs ==
    {<<"text", cBold>>, <<"text", cDim>>, <<"box", cBold>>, <<"box", cDim>>,
     <<"read">>}

AncestorCodes == {<<>>, <<cOnWhite, cRed>>}

BranchInput == <<104, 105>>

\* the ancestor's codes slice: array 1 of the store, when it has codes
AncSlice == styles[1].codes

InitBranch ==
    /\ enabled = TRUE
    /\ \E codes \in AncestorCodes :
          IF codes = <<>>
          THEN arrays = <<>> /\ styles = <<[codes |-> NilSlice]>>
          ELSE arrays = <<codes>>
               /\ styles = <<[codes |-> [arr |-> 1, len |-> Len(codes)]]>>
    /\ boxes = <<[NewBoxObj EXCEPT !.codes = styles[1].codes]>>
    /\ maps = <<>>
    /\ made \in [Threads -> {[prog |-> pg, slice |-> NilSlice, k |-> 0] : pg \in Programs}]
    /\ cfg = 0
    /\ content = BranchInput
    /\ reads = <<>>
    /\ pc = [t \in Threads |-> "start"]
    /\ res = [t \in Threads |-> <<>>]
    /\ output = Stdout /\ mu = MuFree /\ sinks = NoWrites /\ env = NoEnv

\* the array a deriving goroutine gets when it reuses the ancestor's array
\* instead of making its own
branchMakeShared(A, anc, n) ==
    IF anc.arr = 0 THEN [arrays |-> Append(A, ZeroStrings(n)), arr |-> Len(A) + 1]
    ELSE [arrays |-> [A EXCEPT ![anc.arr] =
                         @ \o ZeroStrings(Max0(n - Len(@)))],
          arr |-> anc.arr]

\* make([]string, n) in a goroutine deriving from the slice anc
branchMake(A, anc, n) ==
    [arrays |-> Append(A, ZeroStrings(n)), arr |-> Len(A) + 1]

\* cp := make([]string, len(t.codes)+1) of with; cp.codes = make([]string,
\* len(b.codes)) of copyBox, which a box with no codes skips
BranchMake(t) ==
    /\ pc[t] = "start" /\ made[t].prog[1] \in {"text", "box"}
    /\ LET n == AncSlice.len + (IF made[t].prog[1] = "text" THEN 1 ELSE 0)
           r == branchMake(arrays, AncSlice, n)
       IN  IF n = 0
           THEN /\ arrays' = arrays
                /\ made' = [made EXCEPT ![t].k = 1]
           ELSE /\ arrays' = r.arrays
                /\ made' = [made EXCEPT ![t].slice = [arr |-> r.arr, len |-> n],
                                        ![t].k = 1]
    /\ pc' = [pc EXCEPT ![t] = "copy"]
    /\ UNCHANGED <<env, output, mu, sinks, enabled, maps, styles, boxes, cfg, content, reads, res>>

\* copy(cp, t.codes), one element at a time
BranchCopy(t) ==
    /\ pc[t] = "copy"
    /\ IF made[t].k <= AncSlice.len
       THEN /\ arrays' = [arrays EXCEPT ![made[t].slice.arr][made[t].k] =
                                           arrays[AncSlice.arr][made[t].k]]
            /\ made' = [made EXCEPT ![t].k = @ + 1]
            /\ pc' = pc
       ELSE /\ arrays' = arrays /\ made' = made
            /\ pc' = [pc EXCEPT ![t] = "store"]
    /\ UNCHANGED <<env, output, mu, sinks, enabled, maps, styles, boxes, cfg, content, reads, res>>

\* cp[len(t.codes)] = code of with; cp.codes = append(cp.codes, code) of
\* withCode
BranchStore(t) ==
    /\ pc[t] = "store"
    /\ IF made[t].prog[1] = "text"
       THEN /\ arrays' = [arrays EXCEPT ![made[t].slice.arr][made[t].slice.len] =
                                           made[t].prog[2]]
            /\ made' = made
       ELSE LET a == goAppend(arrays, made[t].slice, made[t].prog[2])
            IN  /\ arrays' = a.arrays
                /\ made' = [made EXCEPT ![t].slice = a.slice]
    /\ pc' = [pc EXCEPT ![t] = "built"]
    /\ UNCHANGED <<env, output, mu, sinks, enabled, maps, styles, boxes, cfg, content, reads, res>>

\* String(content) on the derived value
BranchString(t) ==
    /\ pc[t] = "built"
    /\ res' = [res EXCEPT ![t] =
                 IF made[t].prog[1] = "text"
                 THEN TextRender(SliceVal(arrays, made[t].slice), content, enabled)
                 ELSE RenderWith([NewBox EXCEPT !.codes =
                                     SliceVal(arrays, made[t].slice)],
                                 content, AllOn).out]
    /\ pc' = [pc EXCEPT ![t] = "done"]
    /\ UNCHANGED <<env, output, mu, sinks, enabled, arrays, maps, styles, boxes, made, cfg, content, reads>>

\* String(content) on the ancestor
AncestorString(t) ==
    /\ pc[t] = "start" /\ made[t].prog[1] = "read"
    /\ res' = [res EXCEPT ![t] = TextRender(SliceVal(arrays, AncSlice), content, enabled)]
    /\ pc' = [pc EXCEPT ![t] = "done"]
    /\ UNCHANGED <<env, output, mu, sinks, enabled, arrays, maps, styles, boxes, made, cfg, content, reads>>

NextBranch ==
    \/ \E t \in Threads : BranchMake(t)
    \/ \E t \in Threads : BranchCopy(t)
    \/ \E t \in Threads : BranchStore(t)
    \/ \E t \in Threads : BranchString(t)
    \/ \E t \in Threads : AncestorString(t)

SpecBranch == InitBranch /\ [][NextBranch]_vars

\* the codes the ancestor was built with
InitialAncestorCodes == IF AncSlice.arr = 0 THEN <<>> ELSE <<cOnWhite, cRed>>

\* the arrays the next step of goroutine t writes, and those it reads
WritesOf(t) ==
    IF pc[t] \in {"copy", "store"} /\ made[t].slice.arr # 0
    THEN {made[t].slice.arr} ELSE {}

ReadsOf(t) ==
    CASE pc[t] = "copy" -> {AncSlice.arr} \ {0}
      [] pc[t] = "built" -> {made[t].slice.arr} \ {0}
      [] pc[t] = "start" /\ made[t].prog[1] = "read" -> {AncSlice.arr} \ {0}
      [] OTHER -> {}

\* C15: however the steps of goroutines deriving from one ancestor and
\* rendering interleave, no step writes an array another goroutine is about
\* to read or write, every derived value renders the ancestor's codes
\* followed by its own code only, and the ancestor renders unchanged.
C15_BranchesIndependent ==
    /\ \A t, u \in Threads :
          t # u => WritesOf(t) \cap (ReadsOf(u) \cup WritesOf(u)) = {}
    /\ SliceVal(arrays, AncSlice) = InitialAncestorCodes
    /\ \A t \in Threads :
          pc[t] = "done" =>
             res[t] = CASE made[t].prog[1] = "text" ->
                             EscPrefix(InitialAncestorCodes \o <<made[t].prog[2]>>)
                             \o content \o cReset
                        [] made[t].prog[1] = "box" ->
                             RenderWith([NewBox EXCEPT !.codes =
                                            InitialAncestorCodes \o <<made[t].prog[2]>>],
                                        content, AllOn).out
                        [] OTHER ->
                             TextRender(InitialAncestorCodes, content, TRUE)

C15_Witness ==
    /\ \A t \in Threads : pc[t] = "done"
    /\ made[1].prog = <<"text", cBold>> /\ made[2].prog = <<"text", cDim>>
    /\ InitialAncestorCodes # <<>>
    /\ made[1].slice.arr = 3 /\ made[2].slice.arr = 2
    /\ res[1] = EscPrefix(<<cOnWhite, cRed, cBold>>) \o content \o cReset
    /\ res[2] = EscPrefix(<<cOnWhite, cRed, cDim>>) \o content \o cReset


---------------------------------------------------------------------------
(* The package state under its mutex: goroutines call ForceColors,         *)
(* SetOutput, isEnabled and getOutput concurrently.  Each call is three    *)
(* steps: take the mutex, access the variable, release the mutex.          *)

\* a second destination, handed to SetOutput
Buffer == "buf"

LockPrograms ==
    {<<"ForceColors", TRUE>>, <<"ForceColors", FALSE>>, <<"SetOutput", Buffer>>,
     <<"isEnabled">>, <<"getOutput">>}

InitLock ==
    /\ enabled \in BOOLEAN
    /\ output = Stdout /\ mu = MuFree /\ sinks = NoWrites /\ env = NoEnv
    /\ arrays = <<>> /\ maps = <<>> /\ styles = <<>> /\ boxes = <<>>
    /\ made \in [Threads -> {[prog |-> pg] : pg \in LockPrograms}]
    /\ cfg = 0 /\ content = <<>> /\ reads = <<>>
    /\ pc = [t \in Threads |-> "start"]
    /\ res = [t \in Threads |-> <<>>]

\* mu.Lock() returns when neither a writer nor a reader holds the mutex,
\* here with the readers not waited for
canLockDespiteReaders(m) == m.writer = 0

\* mu.Lock() returns when neither a writer nor a reader holds the mutex
canLock(m) == m.writer = 0 /\ m.readers = {}

\* mu.RLock() returns when no writer holds the mutex
canRLock(m) == m.writer = 0

\* mu.Lock() in ForceColors and SetOutput
Lock(t) ==
    /\ pc[t] = "start" /\ made[t].prog[1] \in {"ForceColors", "SetOutput"}
    /\ canLock(mu)
    /\ mu' = [mu EXCEPT !.writer = t]
    /\ pc' = [pc EXCEPT ![t] = "locked"]
    /\ UNCHANGED <<env, enabled, output, sinks, arrays, maps, styles, boxes, made, cfg,
                   content, reads, res>>

\* enabled = on in ForceColors
StoreEnabled(t) ==
    /\ pc[t] = "locked" /\ made[t].prog[1] = "ForceColors"
    /\ enabled' = made[t].prog[2]
    /\ pc' = [pc EXCEPT ![t] = "stored"]
    /\ UNCHANGED <<env, output, mu, sinks, arrays, maps, styles, boxes, made, cfg,
                   content, reads, res>>

\* output = w in SetOutput
StoreOutput(t) ==
    /\ pc[t] = "locked" /\ made[t].prog[1] = "SetOutput"
    /\ output' = made[t].prog[2]
    /\ pc' = [pc EXCEPT ![t] = "stored"]
    /\ UNCHANGED <<env, enabled, mu, sinks, arrays, maps, styles, boxes, made, cfg,
                   content, reads, res>>

\* mu.Unlock()
Unlock(t) ==
    /\ pc[t] = "stored"
    /\ mu' = [mu EXCEPT !.writer = 0]
    /\ pc' = [pc EXCEPT ![t] = "done"]
    /\ UNCHANGED <<env, enabled, output, sinks, arrays, maps, styles, boxes, made, cfg,
                   content, reads, res>>

\* mu.RLock() in isEnabled and getOutput
RLock(t) ==
    /\ pc[t] = "start" /\ made[t].prog[1] \in {"isEnabled", "getOutput"}
    /\ canRLock(mu)
    /\ mu' = [mu EXCEPT !.readers = @ \cup {t}]
    /\ pc' = [pc EXCEPT ![t] = "rlocked"]
    /\ UNCHANGED <<env, enabled, output, sinks, arrays, maps, styles, boxes, made, cfg,
                   content, reads, res>>

\* v := enabled in isEnabled
LoadEnabled(t) ==
    /\ pc[t] = "rlocked" /\ made[t].prog[1] = "isEnabled"
    /\ res' = [res EXCEPT ![t] = <<enabled>>]
    /\ pc' = [pc EXCEPT ![t] = "loaded"]
    /\ UNCHANGED <<env, enabled, output, mu, sinks, arrays, maps, styles, boxes, made,
                   cfg, content, reads>>

\* w := output in getOutput
LoadOutput(t) ==
    /\ pc[t] = "rlocked" /\ made[t].prog[1] = "getOutput"
    /\ res' = [res EXCEPT ![t] = <<output>>]
    /\ pc' = [pc EXCEPT ![t] = "loaded"]
    /\ UNCHANGED <<env, enabled, output, mu, sinks, arrays, maps, styles, boxes, made,
                   cfg, content, reads>>

\* mu.RUnlock()
RUnlock(t) ==
    /\ pc[t] = "loaded"
    /\ mu' = [mu EXCEPT !.readers = @ \ {t}]
    /\ pc' = [pc EXCEPT ![t] = "done"]
    /\ UNCHANGED <<env, enabled, output, sinks, arrays, maps, styles, boxes, made, cfg,
                   content, reads, res>>

NextLock ==
    \/ \E t \in Threads : Lock(t)
    \/ \E t \in Threads : StoreEnabled(t)
    \/ \E t \in Threads : StoreOutput(t)
    \/ \E t \in Threads : Unlock(t)
    \/ \E t \in Threads : RLock(t)
    \/ \E t \in Threads : LoadEnabled(t)
    \/ \E t \in Threads : LoadOutput(t)
    \/ \E t \in Threads : RUnlock(t)

SpecLock == InitLock /\ [][NextLock]_vars

---------------------------------------------------------------------------
(* Color detection: detectColor runs colorEnabled on the environment when  *)
(* the package is initialized.                                             *)

\* "0", "1"
EnvValues == {<<>>, <<48>>, <<49>>}

\* "", "dumb", "DUMB", "Dumb", "xterm"
TermValues ==
    {<<>>, <<100, 117, 109, 98>>, <<68, 85, 77, 66>>, <<68, 117, 109, 98>>,
     <<120, 116, 101, 114, 109>>}

\* the lower-case form of an ASCII letter
ToLower(c) == IF c >= 65 /\ c <= 90 THEN c + 32 ELSE c

\* strings.EqualFold on ASCII strings
EqualFold(a, b) ==
    Len(a) = Len(b) /\ \A i \in 1..Len(a) : ToLower(a[i]) = ToLower(b[i])

\* colorEnabled(getenv), getenv reading e; e.tty is isTerminal(os.Stdout)
colorEnabled(e) ==
    IF e.NO_COLOR # <<>> \/ e.NO_COLORS # <<>> \/ e.DISABLE_COLORS # <<>> THEN FALSE
    ELSE IF e.FORCE_COLOR # <<>> \/ e.CLICOLOR_FORCE # <<>> THEN TRUE
    ELSE IF e.CLICOLOR = <<48>> THEN FALSE
    ELSE IF EqualFold(e.TERM, <<100, 117, 109, 98>>) THEN FALSE
    ELSE e.tty

InitDetect ==
    /\ enabled = FALSE
    /\ output = Stdout /\ mu = MuFree /\ sinks = NoWrites
    /\ env \in [NO_COLOR : EnvValues, NO_COLORS : EnvValues,
                DISABLE_COLORS : EnvValues, FORCE_COLOR : EnvValues,
                CLICOLOR_FORCE : EnvValues, CLICOLOR : EnvValues,
                TERM : TermValues, tty : BOOLEAN]
    /\ arrays = <<>> /\ maps = <<>> /\ styles = <<>> /\ boxes = <<>> /\ made = <<>>
    /\ cfg = 0 /\ content = <<>> /\ reads = <<>>
    /\ pc = "init"
    /\ res = EmptyRes

\* enabled = detectColor()
DetectColor ==
    /\ pc = "init"
    /\ enabled' = colorEnabled(env)
    /\ pc' = "detected"
    /\ UNCHANGED <<env, output, mu, sinks, arrays, maps, styles, boxes, made, cfg,
                   content, reads, res>>

NextDetect == DetectColor

SpecDetect == InitDetect /\ [][NextDetect]_vars

\* a disabling condition is present in the environment
Disabling(e) ==
    \/ e.NO_COLOR # <<>> \/ e.NO_COLORS # <<>> \/ e.DISABLE_COLORS # <<>>
    \/ e.CLICOLOR = <<48>>
    \/ e.TERM \in {<<100, 117, 109, 98>>, <<68, 85, 77, 66>>, <<68, 117, 109, 98>>}

\* C17: whenever a disabling condition is present (NO_COLOR, NO_COLORS or
\* DISABLE_COLORS non-empty, CLICOLOR=0, TERM=dumb in any letter case),
\* detection leaves color disabled, also when FORCE_COLOR or CLICOLOR_FORCE
\* is set.
C17_DisableBeatsForce ==
    (pc = "detected" /\ Disabling(env)) => ~enabled


---------------------------------------------------------------------------
(* The write operations of TextStyle and box: Print, Printf, Println write *)
(* to the default output and discard the result of the write; Fprint,       *)
(* Fprintf, Fprintln write to w and return it.                              *)

MaxCalls == 2

\* a destination whose Write fails
Broken == "broken"

Writers == {Stdout, Broken}

Nil == "nil"

ErrClosed == "closed"

\* w.Write(p): (n, err)
Write(w, p) ==
    IF w = Broken THEN [n |-> 0, err |-> ErrClosed] ELSE [n |-> Len(p), err |-> Nil]

\* fmt.Fprint writing again after a failed Write
fmtFprintRetry(w, str) ==
    LET r == Write(w, str)
        one == [w |-> w, data |-> str, err |-> r.err]
    IN  [writes |-> IF r.err # Nil THEN <<one, one>> ELSE <<one>>,
         n |-> r.n, err |-> r.err]

\* fmt.Fprint(w, str): one w.Write of the formatted bytes, whose (n, err) it
\* returns
fmtFprint(w, str) ==
    LET r == Write(w, str)
    IN  [writes |-> <<[w |-> w, data |-> str, err |-> r.err]>>,
         n |-> r.n, err |-> r.err]

\* fmt.Fprintln(w, str)
fmtFprintln(w, str) == fmtFprint(w, str \o <<LF>>)

PERCENT == 37

LowerD == 100

LowerS == 115

Digit0 == 48

\* the decimal digits of n >= 0
RECURSIVE Decimal(_)
Decimal(n) ==
    IF n < 10 THEN <<Digit0 + n>> ELSE Decimal(n \div 10) \o <<Digit0 + (n % 10)>>

\* fmt.Sprintf(format, a...) for the verbs %d and %s, one operand per verb
RECURSIVE fmtSprintf(_, _)
fmtSprintf(format, a) ==
    IF Len(format) = 0 THEN <<>>
    ELSE IF format[1] = PERCENT /\ Len(format) >= 2 /\ format[2] = LowerD
    THEN Decimal(a[1]) \o fmtSprintf(SubSeq(format, 3, Len(format)), Tail(a))
    ELSE IF format[1] = PERCENT /\ Len(format) >= 2 /\ format[2] = LowerS
    THEN a[1] \o fmtSprintf(SubSeq(format, 3, Len(format)), Tail(a))
    ELSE <<format[1]>> \o fmtSprintf(Tail(format), a)

\* Printf("val=%s num=%d", "ok", 7)
FormatCalls ==
    {<< <<118, 97, 108, 61, PERCENT, LowerS, SP, 110, 117, 109, 61, PERCENT, LowerD>>,
        << <<111, 107>>, 7 >> >>}

WriteContents == {<<104, 105>>}

WriteCodes == {<<cBold>>}

WriteBoxes == {NewBox, [NewBox EXCEPT !.padLeft = -1]}

InitWrite ==
    /\ enabled \in BOOLEAN
    /\ output = Stdout /\ mu = MuFree /\ sinks = NoWrites /\ env = NoEnv
    /\ arrays = <<>> /\ maps = <<>> /\ styles = <<>> /\ boxes = <<>> /\ made = <<>>
    /\ cfg = 0 /\ content = <<>> /\ reads = <<>>
    /\ pc = "run"
    /\ res = EmptyRes

\* SetOutput(w)
SetOutput(w) ==
    /\ pc = "run"
    /\ output # w
    /\ output' = w
    /\ UNCHANGED <<env, enabled, mu, sinks, arrays, maps, styles, boxes, made, cfg,
                   content, reads, pc, res>>

\* t.render(s) as a call that returns
textRendered(codes, s) == <<"ok", TextRender(codes, s, enabled)>>

\* the strings the write operations are given to render
WriteStrings == WriteContents \cup {fmtSprintf(fa[1], fa[2]) : fa \in FormatCalls}

\* b.render(s) as a call that returns or panics
boxRendered(b, s) ==
    LET en == [k \in 1..64 |-> enabled]
    IN  IF RenderPanics(b, s, en) THEN <<"panic">> ELSE <<"ok", RenderWith(b, s, en).out>>

\* One call of a write operation op: r is the outcome of its render, ln says
\* whether it ends in fmt.Fprintln, keep whether it returns the (n, err) of
\* the write.
writeCall(op, w, r, ln, keep) ==
    /\ pc = "run"
    /\ Len(made) < MaxCalls
    /\ IF r[1] = "panic"
       THEN /\ pc' = "panic"
            /\ made' = Append(made, [op |-> op, w |-> w, ret |-> <<"panic">>])
            /\ sinks' = sinks
       ELSE LET f == IF ln THEN fmtFprintln(w, r[2]) ELSE fmtFprint(w, r[2])
            IN  /\ pc' = pc
                /\ made' = Append(made, [op |-> op, w |-> w,
                                         ret |-> IF keep THEN <<f.n, f.err>> ELSE <<>>])
                /\ sinks' = sinks \o [i \in 1..Len(f.writes) |->
                                         [w |-> f.writes[i].w, data |-> f.writes[i].data,
                                          err |-> f.writes[i].err, call |-> Len(made) + 1]]
    /\ UNCHANGED <<env, enabled, output, mu, arrays, maps, styles, boxes, cfg, content,
                   reads, res>>

\* (*TextStyle).Print
TextPrint ==
    \E c \in WriteCodes, s \in WriteContents :
        \E r \in {textRendered(c, s)} :
            writeCall("Print", output, r, FALSE, FALSE)

\* (*TextStyle).Printf
TextPrintf ==
    \E c \in WriteCodes, fa \in FormatCalls :
        \E r \in {textRendered(c, fmtSprintf(fa[1], fa[2]))} :
            writeCall("Printf", output, r, FALSE, FALSE)

\* (*TextStyle).Println
TextPrintln ==
    \E c \in WriteCodes, s \in WriteContents :
        \E r \in {textRendered(c, s)} :
            writeCall("Println", output, r, TRUE, FALSE)

\* (*TextStyle).Fprint
TextFprint ==
    \E w \in Writers, c \in WriteCodes, s \in WriteContents :
        \E r \in {textRendered(c, s)} :
            writeCall("Fprint", w, r, FALSE, TRUE)

\* (*TextStyle).Fprintf
TextFprintf ==
    \E w \in Writers, c \in WriteCodes, fa \in FormatCalls :
        \E r \in {textRendered(c, fmtSprintf(fa[1], fa[2]))} :
            writeCall("Fprintf", w, r, FALSE, TRUE)

\* (*TextStyle).Fprintln
TextFprintln ==
    \E w \in Writers, c \in WriteCodes, s \in WriteContents :
        \E r \in {textRendered(c, s)} :
            writeCall("Fprintln", w, r, TRUE, TRUE)

\* (*box).Print, r the outcome of b.render(s)
BoxPrint(s, r) ==
    s \in WriteContents /\ writeCall("Print", output, r, FALSE, FALSE)

\* (*box).Printf, s the formatted content
BoxPrintf(s, r) ==
    /\ \E fa \in FormatCalls : s = fmtSprintf(fa[1], fa[2])
    /\ writeCall("Printf", output, r, FALSE, FALSE)

\* (*box).Println
BoxPrintln(s, r) ==
    s \in WriteContents /\ writeCall("Println", output, r, TRUE, FALSE)

\* (*box).Fprint
BoxFprint(w, s, r) ==
    s \in WriteContents /\ writeCall("Fprint", w, r, FALSE, TRUE)

\* (*box).Fprintf, s the formatted content
BoxFprintf(w, s, r) ==
    /\ \E fa \in FormatCalls : s = fmtSprintf(fa[1], fa[2])
    /\ writeCall("Fprintf", w, r, FALSE, TRUE)

\* (*box).Fprintln
BoxFprintln(w, s, r) ==
    s \in WriteContents /\ writeCall("Fprintln", w, r, TRUE, TRUE)

NextWrite ==
    \/ \E w \in Writers : SetOutput(w)
    \/ TextPrint
    \/ TextPrintf
    \/ TextPrintln
    \/ TextFprint
    \/ TextFprintf
    \/ TextFprintln
    \/ \E b \in WriteBoxes, s \in WriteStrings :
          \E r \in {boxRendered(b, s)} :
              \/ BoxPrint(s, r)
              \/ BoxPrintf(s, r)
              \/ BoxPrintln(s, r)
              \/ \E w \in Writers : BoxFprint(w, s, r)
              \/ \E w \in Writers : BoxFprintf(w, s, r)
              \/ \E w \in Writers : BoxFprintln(w, s, r)

SpecWrite == InitWrite /\ [][NextWrite]_vars

\* the Write attempts the k-th call made
AttemptsOf(k) == {i \in 1..Len(sinks) : sinks[i].call = k}

DirectOps == {"Fprint", "Fprintf", "Fprintln"}

DefaultOps == {"Print", "Printf", "Println"}

\* C18: a call whose render returned makes exactly one Write attempt; when
\* that attempt fails, a direct-write operation returns the failure of the
\* attempt, and a default-destination operation returns no result at all.
C18_WriteFailureHandling ==
    \A k \in 1..Len(made) :
        made[k].ret # <<"panic">> =>
            /\ Cardinality(AttemptsOf(k)) = 1
            /\ \A i \in AttemptsOf(k) :
                  /\ sinks[i].w = made[k].w
                  /\ sinks[i].err # Nil =>
                        /\ made[k].op \in DirectOps =>
                              made[k].ret = <<0, sinks[i].err>>
                        /\ made[k].op \in DefaultOps => made[k].ret = <<>>
                  /\ sinks[i].err = Nil /\ made[k].op \in DirectOps =>
                        made[k].ret = <<Len(sinks[i].data), Nil>>

\* A Println to the broken default output returned normally, then an Fprintf
\* to the broken writer returned its failure: two calls, two attempts.
C18_Witness ==
    /\ Len(made) = 2
    /\ Len(sinks) = 2
    /\ made[1].op = "Println" /\ made[1].w = Broken /\ made[1].ret = <<>>
    /\ sinks[1].err = ErrClosed
    /\ made[2].op = "Fprintf" /\ made[2].ret = <<0, ErrClosed>>
    /\ sinks[2].err = ErrClosed
    /\ pc = "run"


---------------------------------------------------------------------------
(* A fluent chain followed by String: Box().PaddingX(-1).String("hi").      *)

\* b.String(content) on the box behind handle i; pc = "panic" is a call that
\* panicked, which a caller that recovers survives
BoxString(i) ==
    /\ cfg' = BoxVal(arrays, maps, boxes[i])
    /\ LET en == [k \in 1..NumWraps(cfg', content) |-> enabled]
       IN  IF RenderPanics(cfg', content, en)
           THEN pc' = "panic" /\ reads' = <<>> /\ res' = EmptyRes
           ELSE pc' = "done" /\ reads' = en /\ res' = RenderWith(cfg', content, en)
    /\ UNCHANGED <<env, output, mu, sinks, enabled, arrays, maps, styles, boxes, made,
                   content>>

NextFluent ==
    \/ NextChain
    \/ \E i \in 1..Len(boxes) : BoxString(i)

SpecFluent == InitChain /\ [][NextFluent]_vars

\* C19: String returns for every box built by chaining, whatever the
\* integer arguments of the chaining calls: no render aborts.
C19_RenderNeverAborts ==
    pc # "panic"

\* C20: the four paddings and the four margins of every box built by
\* chaining are non-negative.
C20_PaddingMarginNonNegative ==
    \A i \in 1..Len(boxes) :
        /\ boxes[i].padTop >= 0 /\ boxes[i].padRight >= 0
        /\ boxes[i].padBottom >= 0 /\ boxes[i].padLeft >= 0
        /\ boxes[i].marginTop >= 0 /\ boxes[i].marginRight >= 0
        /\ boxes[i].marginBottom >= 0 /\ boxes[i].marginLeft >= 0


---------------------------------------------------------------------------
(* Alignment: render over every combination of the centering flags the     *)
(* chaining methods can produce.                                           *)

\* arguments of CenterLine
LineIndexes == {-1, 0, 1, 3}

\* Center sets center; CenterTrim sets center and centerTrim
AlignFlags ==
    {[center |-> c, centerTrim |-> t, centerLines |-> ls,
      centerFirst |-> f, centerLast |-> l] :
        c \in BOOLEAN, t \in BOOLEAN, ls \in SUBSET LineIndexes,
        f \in BOOLEAN, l \in BOOLEAN}

AlignConfigs ==
    {[NewBox EXCEPT !.center = al.center, !.centerTrim = al.centerTrim,
                    !.centerLines = al.centerLines,
                    !.centerFirst = al.centerFirst, !.centerLast = al.centerLast,
                    !.padLeft = pl, !.padRight = 2 * pl, !.codes = cs] :
        al \in {a \in AlignFlags : a.centerTrim => a.center},
        pl \in {0, 1}, cs \in {<<>>, <<cRed>>}}

\* "", "hi", "abcd\nx", "abcd\nx\nyz", " x \nabcde", a styled line over a
\* wider plain one
AlignContents ==
    {<<>>,
     <<104, 105>>,
     <<97, 98, 99, 100, LF, 120>>,
     <<97, 98, 99, 100, LF, 120, LF, 121, 122>>,
     <<SP, 120, SP, LF, 97, 98, 99, 100, 101>>,
     TextRender(<<cRed, cBold>>, <<104, 105>>, TRUE) \o <<LF, 97, 98, 99, 100>>}

InitAlign ==
    /\ enabled \in BOOLEAN
    /\ cfg \in AlignConfigs
    /\ content \in AlignContents
    /\ arrays = <<>> /\ maps = <<>> /\ styles = <<>> /\ boxes = <<>> /\ made = <<>>
    /\ reads = <<>>
    /\ pc = "ready"
    /\ res = EmptyRes
    /\ output = Stdout /\ mu = MuFree /\ sinks = NoWrites /\ env = NoEnv

SpecAlign == InitAlign /\ [][NextRender]_vars

\* the box b without its CenterLine(n) call
WithoutLine(b, n) == [b EXCEPT !.centerLines = @ \ {n}]

\* C21: a centered-line index outside [0, n) for content of n lines,
\* negative ones included, has no effect: the box renders the same string
\* without that CenterLine call. An index inside the range changes at most
\* the row of its own line.
C21_CenterLineOutOfRangeIgnored ==
    pc = "done" =>
        LET n == Len(linesOf(cfg, content))
        IN  \A k \in cfg.centerLines :
                LET other == RenderWith(WithoutLine(cfg, k), content, reads)
                IN  IF k < 0 \/ k >= n
                    THEN other.out = res.out
                    ELSE /\ Len(other.rows) = Len(res.rows)
                         /\ \A r \in 1..Len(res.rows) :
                               r # RowsAbove(cfg) + k + 1 => other.rows[r] = res.rows[r]

\* CenterLine(3) and CenterLine(-1) on two lines change nothing, and
\* CenterLine(1) moved the second line only.
C21_Witness ==
    /\ pc = "done" /\ ~enabled
    /\ content = <<97, 98, 99, 100, LF, 120>>
    /\ cfg.centerLines = {-1, 1, 3} /\ ~cfg.center /\ ~cfg.centerFirst /\ ~cfg.centerLast
    /\ cfg.padLeft = 0
    /\ res.rows[RowsAbove(cfg) + 1] = cfg.border.Vertical \o <<97, 98, 99, 100>> \o cfg.border.Vertical
    /\ res.rows[RowsAbove(cfg) + 2] = cfg.border.Vertical \o <<SP, 120, SP, SP>> \o cfg.border.Vertical
    /\ res.out = RenderWith(WithoutLine(WithoutLine(cfg, -1), 3), content, reads).out
    /\ res.out # RenderWith(WithoutLine(cfg, 1), content, reads).out

\* line i of n (0-based) is to be centered
CenteredAsStated(b, i, n) ==
    \/ b.center
    \/ b.centerTrim
    \/ i \in b.centerLines
    \/ (b.centerFirst /\ i = 0)
    \/ (b.centerLast /\ i = n - 1)

\* the row of a line with its escape sequences removed, centered or not
PlainRow(b, line, centered, availW) ==
    LET vis == visibleWidth(line)
        total == availW - vis
        left == IF centered /\ vis < availW THEN total \div 2 ELSE 0
        right == IF centered /\ vis < availW THEN total - left ELSE Max0(total)
    IN  b.border.Vertical \o Spaces(b.padLeft + left) \o stripANSI(line)
        \o Spaces(right + b.padRight) \o b.border.Vertical

\* C25: line i of n is centered exactly when center, or centerTrim, or i in
\* the centered-line set, or centerFirst and i = 0, or centerLast and
\* i = n - 1; so with center set every line is centered whatever the set
\* holds, and CenterTrim renders as Center does when no line has
\* surrounding whitespace.
C25_CenteredExactlyWhen ==
    pc = "done" =>
        LET lines == linesOf(cfg, content)
            n == Len(lines)
            availW == maxWidth(lines)
        IN  /\ \A i \in 1..n :
                  stripANSI(res.boxRows[RowsAbove(cfg) + i]) =
                      PlainRow(cfg, lines[i], CenteredAsStated(cfg, i - 1, n), availW)
            /\ cfg.center =>
                  res.out = RenderWith([cfg EXCEPT !.centerLines = {}], content, reads).out
            /\ (cfg.centerTrim /\ \A i \in 1..Len(Split(content)) :
                                     TrimSpace(Split(content)[i]) = Split(content)[i]) =>
                  res.out = RenderWith([cfg EXCEPT !.centerTrim = FALSE], content, reads).out

\* Only the last-line flag is set: of three lines the third alone is
\* centered.
C25_Witness ==
    /\ pc = "done" /\ ~enabled
    /\ content = <<97, 98, 99, 100, LF, 120, LF, 121, 122>>
    /\ ~cfg.center /\ cfg.centerLines = {} /\ ~cfg.centerFirst /\ cfg.centerLast
    /\ cfg.padLeft = 0
    /\ res.rows[RowsAbove(cfg) + 2] = cfg.border.Vertical \o <<120, SP, SP, SP>> \o cfg.border.Vertical
    /\ res.rows[RowsAbove(cfg) + 3] = cfg.border.Vertical \o <<SP, 121, 122, SP>> \o cfg.border.Vertical


---------------------------------------------------------------------------
(* Margin and shadow: render over boxes with every shadow position, a      *)
(* shadow style whose horizontal glyph has no visible width, margins, and  *)
(* content that carries escape sequences.                                  *)

\* a user-supplied ShadowStyle whose horizontal glyph is empty
ShadowNoFill ==
    [TopLeft |-> <<47>>, TopRight |-> <<92>>, BottomLeft |-> <<92>>,
     BottomRight |-> <<47>>, Horizontal |-> <<>>, Vertical |-> <<124>>]

\* a user-supplied ShadowStyle whose horizontal glyph is two columns wide
ShadowDash ==
    [TopLeft |-> <<47>>, TopRight |-> <<92>>, BottomLeft |-> <<92>>,
     BottomRight |-> <<47>>, Horizontal |-> <<45, 45>>, Vertical |-> <<124>>]

FrameShadows ==
    {[shadow |-> <<>>, pos |-> ShadowBottomRight, codes |-> <<>>]}
    \cup {[shadow |-> <<sty>>, pos |-> p, codes |-> <<cBrightBlack>>] :
             sty \in {ShadowLines, ShadowWide, ShadowNoFill, ShadowDash},
             p \in ShadowPositions}
    \cup {[shadow |-> <<ShadowLines>>, pos |-> p, codes |-> <<cBrightBlack, cDim>>] :
             p \in {ShadowBottomRight, ShadowTopLeft}}

FrameHides ==
    {[t |-> FALSE, b |-> FALSE, l |-> FALSE, r |-> FALSE],
     [t |-> FALSE, b |-> TRUE, l |-> FALSE, r |-> FALSE],
     [t |-> TRUE, b |-> TRUE, l |-> TRUE, r |-> TRUE]}

\* no centering, Center(), CenterTrim()
FrameAligns == {<<FALSE, FALSE>>, <<TRUE, FALSE>>, <<TRUE, TRUE>>}

FrameConfigs ==
    {[NewBox EXCEPT !.codes = cs, !.padLeft = pl, !.padRight = pl,
                    !.marginTop = mg.t, !.marginRight = mg.r,
                    !.marginBottom = mg.b, !.marginLeft = mg.l,
                    !.center = al[1], !.centerTrim = al[2],
                    !.hideTop = hd.t, !.hideBottom = hd.b,
                    !.hideLeft = hd.l, !.hideRight = hd.r,
                    !.shadow = sh.shadow, !.shadowPos = sh.pos,
                    !.shadowCodes = sh.codes] :
        cs \in {<<>>, <<cRed>>}, pl \in {0, 1}, mg \in Margins, al \in FrameAligns,
        hd \in FrameHides, sh \in FrameShadows}

\* "", "hi", "abcd\nx", a styled " xy " over "ab", a nested colored box, an
\* OSC sequence with a line break inside it
FrameContents ==
    {<<>>,
     <<104, 105>>,
     <<97, 98, 99, 100, LF, 120>>,
     TextRender(<<cRed>>, <<SP, 120, 121, SP>>, TRUE) \o <<LF, 97, 98>>,
     RenderWith([NewBox EXCEPT !.codes = <<cBlue>>], <<120>>, AllOn).out,
     <<ESC, RBRACKET, 48, LF, 120, 121, BEL>>}

InitFrame ==
    /\ enabled \in BOOLEAN
    /\ cfg \in FrameConfigs
    /\ content \in FrameContents
    /\ arrays = <<>> /\ maps = <<>> /\ styles = <<>> /\ boxes = <<>> /\ made = <<>>
    /\ reads = <<>>
    /\ pc = "ready"
    /\ res = EmptyRes
    /\ output = Stdout /\ mu = MuFree /\ sinks = NoWrites /\ env = NoEnv

SpecFrame == InitFrame /\ [][NextRender]_vars

\* the rows, each between left and right spaces, joined by line breaks
RECURSIVE FramedRows(_, _, _)
FramedRows(rows, left, right) ==
    IF Len(rows) = 0 THEN <<>>
    ELSE Spaces(left) \o rows[1] \o Spaces(right)
         \o (IF Len(rows) > 1 THEN <<LF>> \o FramedRows(Tail(rows), left, right)
             ELSE <<>>)

NoMargin(b) ==
    [b EXCEPT !.marginTop = 0, !.marginRight = 0, !.marginBottom = 0, !.marginLeft = 0]

\* C22: the output is marginTop line breaks, then every row of the body,
\* the shadow's added row included, between marginLeft spaces and
\* marginRight spaces, then marginBottom line breaks after the break, if
\* any, that follows the last row; the rows are those of the same box
\* without margin.
C22_MarginAroundBody ==
    pc = "done" =>
        LET plain == RenderWith(NoMargin(cfg), content, reads)
            body == FramedRows(res.rows, cfg.marginLeft, cfg.marginRight)
            lastBreak == IF EndsWith(plain.out, <<LF>>) THEN <<LF>> ELSE <<>>
        IN  /\ res.rows = plain.rows
            /\ plain.out = FramedRows(plain.rows, 0, 0) \o lastBreak
            /\ res.out = Repeat(<<LF>>, cfg.marginTop) \o body \o lastBreak
                         \o Repeat(<<LF>>, cfg.marginBottom)

\* A box with a shadow and margin 1, 1, 1, 2: four rows, each after two
\* spaces and before one, one line break before and one extra after.
C22_Witness ==
    /\ pc = "done" /\ ~enabled
    /\ content = <<104, 105>>
    /\ cfg.marginTop = 1 /\ cfg.marginLeft = 2 /\ cfg.marginRight = 1 /\ cfg.marginBottom = 1
    /\ Len(cfg.shadow) > 0 /\ cfg.shadowPos = ShadowBottomRight
    /\ ~cfg.hideTop /\ ~cfg.hideBottom /\ cfg.padLeft = 0
    /\ Len(res.rows) = 4
    /\ SubSeq(res.out, 1, 3) = <<LF, SP, SP>>
    /\ CountByte(res.out, LF) = 5
    /\ EndsWith(res.out, <<SP, LF>>)


\* every row with its escape sequences removed
StrippedRows(rows) == [r \in 1..Len(rows) |-> stripANSI(rows[r])]

\* the rows of the box around content s equal, escape sequences aside, the
\* rows of the same box around stripANSI(s): same width of the border
\* rows, same fill right of every line
SameFrameAsStripped ==
    LET plain == RenderWith(cfg, stripANSI(content), reads)
    IN  /\ Len(plain.boxRows) = Len(res.boxRows)
        /\ \A r \in 1..Len(res.boxRows) :
              visibleWidth(res.boxRows[r]) = visibleWidth(plain.boxRows[r])
        /\ StrippedRows(res.boxRows) = StrippedRows(plain.boxRows)

\* C23 as stated: for any content, the frame has the width of the frame
\* around the content with its escape sequences removed.
C23_Original ==
    pc = "done" => SameFrameAsStripped

\* C23: for content none of whose lines ends inside an escape sequence, in
\* a box that does not trim its lines, the rows of the frame have the
\* visible width of those around the content with its escape sequences
\* removed, and every line has the same fill.
C23_WidthFromVisibleContent ==
    (pc = "done" /\ ~cfg.centerTrim /\ LinesClosed) => SameFrameAsStripped

\* A styled " xy " over "ab": four columns between the borders, as for the
\* unstyled text, and "ab" filled with two spaces.
C23_Witness ==
    /\ pc = "done" /\ ~enabled /\ ~cfg.center
    /\ content = TextRender(<<cRed>>, <<SP, 120, 121, SP>>, TRUE) \o <<LF, 97, 98>>
    /\ cfg.padLeft = 0 /\ ~cfg.hideTop /\ ~cfg.hideLeft
    /\ visibleWidth(res.boxRows[1]) = 6
    /\ res.boxRows[3] = cfg.border.Vertical \o <<97, 98, SP, SP>> \o cfg.border.Vertical
    /\ Len(res.boxRows[2]) > Len(res.boxRows[3])


\* g in the shadow's codes
InShadowCodes(g) == TextRender(cfg.shadowCodes, g, enabled)

\* the shadow's new row: two corner glyphs around a run of the horizontal
\* glyph, in the shadow's codes
IsShadowBar(row, left, right, sty) ==
    \E k \in 0..MaxFill :
        row = left
              \o InShadowCodes(IF cfg.shadowPos \in {ShadowBottomRight, ShadowBottomLeft}
                               THEN sty.BottomLeft \o Repeat(sty.Horizontal, k)
                                    \o sty.BottomRight
                               ELSE sty.TopLeft \o Repeat(sty.Horizontal, k)
                                    \o sty.TopRight)
              \o right

\* the rows of the two bottom positions: row 0 with a spacer, row 1 with
\* the upper corner glyph, the rows after it with the vertical glyph, then
\* the new row
BottomShadowRows ==
    LET sty == cfg.shadow[1]
        n == Len(res.boxRows)
        spacer == Spaces(visibleWidth(sty.Vertical))
        right == cfg.shadowPos = ShadowBottomRight
        Beside(row, g) == IF right THEN row \o g ELSE g \o row
    IN  /\ Len(res.rows) = n + 1
        /\ res.rows[1] = Beside(res.boxRows[1], spacer)
        /\ n > 1 => res.rows[2] =
                       Beside(res.boxRows[2],
                              InShadowCodes(IF right THEN sty.TopRight ELSE sty.TopLeft))
        /\ \A i \in 3..n : res.rows[i] = Beside(res.boxRows[i], InShadowCodes(sty.Vertical))
        /\ IF right THEN IsShadowBar(res.rows[n + 1], spacer, <<>>, sty)
           ELSE IsShadowBar(res.rows[n + 1], <<>>, spacer, sty)

\* the rows of the two top positions: the new row first, every row of the
\* box but the last with the vertical glyph, the last with the lower
\* corner glyph
TopShadowRows ==
    LET sty == cfg.shadow[1]
        n == Len(res.boxRows)
        spacer == Spaces(visibleWidth(sty.Vertical))
        right == cfg.shadowPos = ShadowTopRight
        Beside(row, g) == IF right THEN row \o g ELSE g \o row
    IN  /\ Len(res.rows) = n + 1
        /\ IF right THEN IsShadowBar(res.rows[1], spacer, <<>>, sty)
           ELSE IsShadowBar(res.rows[1], <<>>, spacer, sty)
        /\ \A i \in 1..(n - 1) :
              res.rows[i + 1] = Beside(res.boxRows[i], InShadowCodes(sty.Vertical))
        /\ res.rows[n + 1] =
              Beside(res.boxRows[n],
                     InShadowCodes(IF right THEN sty.BottomRight ELSE sty.BottomLeft))

\* the row of the box that holds the anchor corner carries a spacer
AnchorRowHasSpacer ==
    LET sty == cfg.shadow[1]
        n == Len(res.boxRows)
        spacer == Spaces(visibleWidth(sty.Vertical))
    IN  CASE cfg.shadowPos = ShadowBottomRight -> res.rows[1] = res.boxRows[1] \o spacer
          [] cfg.shadowPos = ShadowBottomLeft -> res.rows[1] = spacer \o res.boxRows[1]
          [] cfg.shadowPos = ShadowTopRight -> res.rows[n + 1] = res.boxRows[n] \o spacer
          [] cfg.shadowPos = ShadowTopLeft -> res.rows[n + 1] = spacer \o res.boxRows[n]

HasShadowRows == pc = "done" /\ Len(cfg.shadow) > 0 /\ Len(res.boxRows) > 0

\* C26 as stated: the bottom positions as described, the top positions
\* with the new row first, and in every position a spacer on the row of
\* the box that holds the anchor corner.
C26_Original ==
    HasShadowRows =>
        /\ cfg.shadowPos \in {ShadowBottomRight, ShadowBottomLeft} => BottomShadowRows
        /\ AnchorRowHasSpacer

\* C26: bottom-right appends a spacer to row 0, the top-right corner glyph
\* to row 1, the vertical glyph to rows 2..n-1, and adds a final row of
\* spacer and bar; bottom-left does the same with prefixes and the top-left
\* corner glyph. The top positions add the bar row first, put the vertical
\* glyph beside every row of the box but the last and the lower corner
\* glyph beside the last: there no row of the box carries a spacer.
C26_ShadowRows ==
    HasShadowRows =>
        IF cfg.shadowPos \in {ShadowBottomRight, ShadowBottomLeft}
        THEN BottomShadowRows
        ELSE TopShadowRows

\* A top-right shadow on a three-row box: the bar after a spacer, the
\* vertical glyph beside the first two rows, the lower-right corner glyph
\* beside the bottom border.
C26_Witness ==
    /\ pc = "done" /\ ~enabled
    /\ content = <<104, 105>>
    /\ cfg.shadow = <<ShadowLines>> /\ cfg.shadowPos = ShadowTopRight
    /\ cfg.padLeft = 0 /\ ~cfg.hideTop /\ ~cfg.hideBottom
    /\ Len(res.rows) = 4
    /\ res.rows[1] = <<SP>> \o ShadowLines.TopLeft \o ShadowLines.Horizontal
                     \o ShadowLines.Horizontal \o ShadowLines.TopRight
    /\ res.rows[2] = res.boxRows[1] \o ShadowLines.Vertical
    /\ res.rows[4] = res.boxRows[3] \o ShadowLines.BottomRight


\* the bar of the shadow's new row with k horizontal glyphs
BarWith(sty, k) ==
    IF cfg.shadowPos \in {ShadowBottomRight, ShadowBottomLeft}
    THEN sty.BottomLeft \o Repeat(sty.Horizontal, k) \o sty.BottomRight
    ELSE sty.TopLeft \o Repeat(sty.Horizontal, k) \o sty.TopRight

\* the shadow's new row
ShadowBarRow ==
    IF cfg.shadowPos \in {ShadowBottomRight, ShadowBottomLeft}
    THEN res.rows[Len(res.rows)] ELSE res.rows[1]

\* the new row holds exactly k horizontal glyphs between its corners
BarHasFill(k) ==
    LET sty == cfg.shadow[1]
        spacer == Spaces(visibleWidth(sty.Vertical))
    IN  ShadowBarRow =
            IF cfg.shadowPos \in {ShadowBottomRight, ShadowTopRight}
            THEN spacer \o InShadowCodes(BarWith(sty, k))
            ELSE InShadowCodes(BarWith(sty, k)) \o spacer

\* C27: the shadow's new row holds floor((boxVisibleWidth - 2 * vertW) /
\* horzW) horizontal glyphs between its two corner glyphs, vertW and horzW
\* the visible widths of the vertical and horizontal glyphs; none when the
\* box is narrower than 2 * vertW or when horzW = 0; never a negative
\* number.
C27_HorizontalFillCount ==
    HasShadowRows =>
        LET sty == cfg.shadow[1]
            vertW == visibleWidth(sty.Vertical)
            horzW == visibleWidth(sty.Horizontal)
            boxW == visibleWidth(res.boxRows[1])
            count == IF horzW = 0 \/ boxW < 2 * vertW THEN 0
                     ELSE (boxW - 2 * vertW) \div horzW
        IN  /\ count >= 0
            /\ res.boxVisW = boxW
            /\ BarHasFill(count)

\* A box five columns wide with a two-column horizontal glyph: one glyph,
\* 3 / 2 rounded down.
C27_Witness ==
    /\ HasShadowRows /\ ~enabled
    /\ cfg.shadow = <<ShadowDash>> /\ cfg.shadowPos = ShadowBottomLeft
    /\ res.boxVisW = 5
    /\ res.rows[Len(res.rows)] = <<92, 45, 45, 47, SP>>


---------------------------------------------------------------------------
(* Claims about the shadow's codes, under SpecChain *)

\* ESC [ c1 ; ... ; ck m
SgrOpen(codes) == <<ESC, LBRACKET>> \o JoinCodes(codes) \o <<LowerM>>

\* the shadow's new row in the rendering of the configuration b, colors on
BarRowOf(b, s) ==
    LET rows == RenderWith(b, s, AllOn).rows
    IN  IF b.shadowPos \in {ShadowBottomRight, ShadowBottomLeft}
        THEN rows[Len(rows)] ELSE rows[1]

\* C28: a frame color call leaves the shadow codes as they were and adds
\* its code to the frame codes; a shadow color call leaves the frame codes
\* and adds its code to the shadow codes; Shadow installs the single
\* bright-black code when the shadow codes are empty and changes no code
\* otherwise, so a second Shadow adds nothing; a box with a shadow has
\* shadow codes, and its shadow row is wrapped once, in the shadow codes
\* and not in the frame codes.
C28_ShadowCodesSeparate ==
    \A i \in 1..Len(boxes) :
        LET b == BoxVal(arrays, maps, boxes[i])
            j == made[i].from
            op == made[i].op
            a == BoxVal(arrays, maps, boxes[j])
        IN  /\ (j > 0 /\ op[1] = "withCode") =>
                  b.shadowCodes = a.shadowCodes /\ b.codes = Append(a.codes, op[2])
            /\ (j > 0 /\ op[1] = "ShadowColor") =>
                  b.codes = a.codes /\ b.shadowCodes = Append(a.shadowCodes, op[2])
            /\ (j > 0 /\ op[1] = "Shadow") =>
                  /\ b.codes = a.codes
                  /\ b.shadowCodes =
                        IF a.shadowCodes = <<>> THEN <<cBrightBlack>> ELSE a.shadowCodes
            /\ Len(b.shadow) > 0 =>
                  /\ b.shadowCodes # <<>>
                  /\ \A s \in ChainInputs :
                        ~RenderPanics(b, s, AllOn) =>
                            /\ Occurrences(SgrOpen(b.shadowCodes), BarRowOf(b, s)) = 1
                            /\ CountByte(BarRowOf(b, s), ESC) = 2
                            /\ SgrOpen(b.codes) # SgrOpen(b.shadowCodes) =>
                                  Occurrences(SgrOpen(b.codes), BarRowOf(b, s)) = 0

\* Box().Shadow(...) and Shadow again at another position: the one
\* default code on both, and the shadow row of the second wrapped in it.
C28_Witness ==
    /\ Len(boxes) = 3
    /\ made[2].op[1] = "Shadow" /\ made[2].from = 1
    /\ made[3].op[1] = "Shadow" /\ made[3].from = 2 /\ made[3].op # made[2].op
    /\ BoxVal(arrays, maps, boxes[1]).shadowCodes = <<>>
    /\ BoxVal(arrays, maps, boxes[2]).shadowCodes = <<cBrightBlack>>
    /\ BoxVal(arrays, maps, boxes[3]).shadowCodes = <<cBrightBlack>>
    /\ \A s \in ChainInputs :
          Occurrences(SgrOpen(<<cBrightBlack>>),
                      BarRowOf(BoxVal(arrays, maps, boxes[3]), s)) = 1

---------------------------------------------------------------------------
(* tinta.go: the Style values of the package-level constructors.  The two  *)
(* versions of the file differ in with: one allocates and copies, the      *)
(* other appends to the receiver's slice.  made[i].file names the version  *)
(* a value belongs to.                                                     *)

MaxChain == 5

StyleFiles == {"tinta.go", "part_001"}

StyleCodesAdded == {cBold, cDim}

InitStyle ==
    /\ enabled = TRUE
    /\ arrays = <<>> /\ styles = <<>> /\ made = <<>>
    /\ content = <<116>>
    /\ maps = <<>> /\ boxes = <<>>
    /\ cfg = 0
    /\ reads = <<>>
    /\ pc = "ready"
    /\ res = EmptyRes
    /\ output = Stdout /\ mu = MuFree /\ sinks = NoWrites /\ env = NoEnv

\* Red(): newStyle(cRed), a slice of length and capacity 1
newStyle(file) ==
    /\ styles = <<>>
    /\ LET cp == makeCopy(arrays, <<cRed>>)
       IN  arrays' = cp.arrays /\ styles' = <<[codes |-> cp.slice]>>
    /\ made' = <<[from |-> 0, code |-> cRed, file |-> file]>>
    /\ UNCHANGED <<env, output, mu, sinks, enabled, maps, boxes, cfg, content, reads,
                   pc, res>>

\* (*style).with of tinta.go: make, copy, store the code
styleWith(i, code) ==
    /\ Len(styles) < MaxChain
    /\ made[i].file = "tinta.go"
    /\ LET r == textWith(arrays, styles, i, code)
       IN  arrays' = r.arrays /\ styles' = r.styles
    /\ made' = Append(made, [from |-> i, code |-> code, file |-> made[i].file])
    /\ UNCHANGED <<env, output, mu, sinks, enabled, maps, boxes, cfg, content, reads,
                   pc, res>>

\* (Style).with of the older file: s.codes = append(s.codes, code) on the
\* receiver's copy of the slice header, which is returned
StyleAppendWith(i, code) ==
    /\ Len(styles) < MaxChain
    /\ made[i].file = "part_001"
    /\ LET r == goAppend(arrays, styles[i].codes, code)
       IN  arrays' = r.arrays /\ styles' = Append(styles, [codes |-> r.slice])
    /\ made' = Append(made, [from |-> i, code |-> code, file |-> made[i].file])
    /\ UNCHANGED <<env, output, mu, sinks, enabled, maps, boxes, cfg, content, reads,
                   pc, res>>

\* s.String(content) for the value styles[i]
StyleValueString(i) ==
    /\ cfg' = i
    /\ pc' = "text"
    /\ reads' = <<enabled>>
    /\ res' = [EmptyRes EXCEPT !.out = TextRender(StyleCodes(i), content, enabled)]
    /\ UNCHANGED <<env, output, mu, sinks, enabled, arrays, maps, styles, boxes, made,
                   content>>

NextStyle ==
    \/ \E file \in StyleFiles : newStyle(file)
    \/ \E i \in 1..Len(styles), code \in StyleCodesAdded : styleWith(i, code)
    \/ \E i \in 1..Len(styles), code \in StyleCodesAdded : StyleAppendWith(i, code)
    \/ \E i \in 1..Len(styles) : StyleValueString(i)

SpecStyle == InitStyle /\ [][NextStyle]_vars

\* C24: every value derived from a base holds the base's codes followed by
\* its own code, whatever was derived from the same base before or after
\* it, for a base of any chain length; the string it renders is the one
\* those codes give.
C24_DerivedStylesIndependent ==
    /\ \A i \in 1..Len(styles) :
          made[i].from > 0 =>
              StyleCodes(i) = StyleCodes(made[i].from) \o <<made[i].code>>
    /\ (pc = "text" /\ cfg <= Len(styles)) =>
          res.out = EscPrefix(<<cRed>> \o AppendedCodes(cfg)) \o content \o cReset


---------------------------------------------------------------------------
(* Print, Printf and Println against a concurrent SetOutput.  A call is    *)
(* fmt.Fprint(getOutput(), render(...)): the arguments are evaluated left  *)
(* to right, so getOutput's three steps come first, then the render, whose *)
(* isEnabled needs the mutex shared, then the one call of fmt.Fprint.      *)

PrintPrograms ==
    {<<"SetOutput", Buffer>>,
     <<"text", "Print">>, <<"text", "Printf">>, <<"text", "Println">>,
     <<"box", "Print">>, <<"box", "Printf">>, <<"box", "Println">>}

PrintOps == {"Print", "Printf", "Println"}

IsPrint(t) == made[t].prog[2] \in PrintOps

InitPrint ==
    /\ enabled \in BOOLEAN
    /\ output = Stdout /\ mu = MuFree /\ sinks = NoWrites /\ env = NoEnv
    /\ arrays = <<>> /\ maps = <<>> /\ styles = <<>> /\ boxes = <<>>
    /\ made \in [Threads -> {[prog |-> pg] : pg \in PrintPrograms}]
    /\ cfg = 0 /\ content = <<104, 105>> /\ reads = <<>>
    /\ pc = [t \in Threads |-> "start"]
    /\ res = [t \in Threads |-> [w |-> Nil, str |-> <<>>]]

\* the string a call renders: content, or for Printf what fmt.Sprintf gives
PrintInput(t) ==
    IF made[t].prog[2] = "Printf"
    THEN fmtSprintf(<<PERCENT, LowerS, 33>>, <<content>>)
    ELSE content

\* getOutput: mu.RLock()
PrintRLock(t) ==
    /\ pc[t] = "start" /\ IsPrint(t)
    /\ canRLock(mu)
    /\ mu' = [mu EXCEPT !.readers = @ \cup {t}]
    /\ pc' = [pc EXCEPT ![t] = "rlocked"]
    /\ UNCHANGED <<env, enabled, output, sinks, arrays, maps, styles, boxes, made, cfg,
                   content, reads, res>>

\* getOutput: w := output
PrintLoadOutput(t) ==
    /\ pc[t] = "rlocked" /\ IsPrint(t)
    /\ res' = [res EXCEPT ![t].w = output]
    /\ pc' = [pc EXCEPT ![t] = "loaded"]
    /\ UNCHANGED <<env, enabled, output, mu, sinks, arrays, maps, styles, boxes, made,
                   cfg, content, reads>>

\* getOutput: mu.RUnlock(); return w
PrintRUnlock(t) ==
    /\ pc[t] = "loaded" /\ IsPrint(t)
    /\ mu' = [mu EXCEPT !.readers = @ \ {t}]
    /\ pc' = [pc EXCEPT ![t] = "got"]
    /\ UNCHANGED <<env, enabled, output, sinks, arrays, maps, styles, boxes, made, cfg,
                   content, reads, res>>

\* what t.render(s) or b.render(s) returns for the call of goroutine t
PrintRendered(t) ==
    IF made[t].prog[1] = "box"
    THEN RenderWith(NewBox, PrintInput(t), [k \in 1..64 |-> enabled]).out
    ELSE TextRender(<<cBold>>, PrintInput(t), enabled)

\* the second argument: render, which reads enabled through isEnabled
PrintRender(t) ==
    /\ pc[t] = "got" /\ IsPrint(t)
    /\ canRLock(mu)
    /\ res' = [res EXCEPT ![t].str = PrintRendered(t)]
    /\ pc' = [pc EXCEPT ![t] = "rendered"]
    /\ UNCHANGED <<env, enabled, output, mu, sinks, arrays, maps, styles, boxes, made,
                   cfg, content, reads>>

\* the Write calls of a call that writes its first byte to w, then reads the
\* destination again for the rest
PrintWritesSplit(t, w, str, ln) ==
    LET all == IF ln THEN str \o <<LF>> ELSE str
    IN  <<[call |-> t, w |-> w, data |-> SubSeq(all, 1, 1), err |-> Nil],
          [call |-> t, w |-> output, data |-> SubSeq(all, 2, Len(all)), err |-> Nil]>>

\* the Write calls of fmt.Fprint(w, str), or fmt.Fprintln(w, str) when ln
PrintWrites(t, w, str, ln) ==
    LET f == IF ln THEN fmtFprintln(w, str) ELSE fmtFprint(w, str)
    IN  [i \in 1..Len(f.writes) |->
            [call |-> t, w |-> f.writes[i].w, data |-> f.writes[i].data,
             err |-> f.writes[i].err]]

\* _, _ = fmt.Fprint(w, str), fmt.Fprintln for Println
PrintWrite(t) ==
    /\ pc[t] = "rendered" /\ IsPrint(t)
    /\ sinks' = sinks \o PrintWrites(t, res[t].w, res[t].str, made[t].prog[2] = "Println")
    /\ pc' = [pc EXCEPT ![t] = "done"]
    /\ UNCHANGED <<env, enabled, output, mu, arrays, maps, styles, boxes, made, cfg,
                   content, reads, res>>

NextPrint ==
    \/ \E t \in Threads : Lock(t)
    \/ \E t \in Threads : StoreOutput(t)
    \/ \E t \in Threads : Unlock(t)
    \/ \E t \in Threads : PrintRLock(t)
    \/ \E t \in Threads : PrintLoadOutput(t)
    \/ \E t \in Threads : PrintRUnlock(t)
    \/ \E t \in Threads : PrintRender(t)
    \/ \E t \in Threads : PrintWrite(t)

SpecPrint == InitPrint /\ [][NextPrint]_vars

WritesOfCall(t) == {i \in 1..Len(sinks) : sinks[i].call = t}

\* C30: a Print, Printf or Println call reads the default destination once,
\* under the mutex, and makes one Write to the destination it read, with
\* the complete rendered bytes (and the newline for Println); with a
\* concurrent SetOutput the call's output goes whole to the old or whole to
\* the new destination.
C30_OneWriteToOneDestination ==
    \A t \in Threads :
        IsPrint(t) =>
            /\ pc[t] = "loaded" => res[t].w = output
            /\ pc[t] \in {"loaded", "got", "rendered", "done"} =>
                  /\ res[t].w \in {Stdout, Buffer}
                  /\ res[t].w = Buffer =>
                        \E u \in Threads :
                            made[u].prog[1] = "SetOutput" /\ pc[u] \in {"stored", "done"}
            /\ pc[t] # "done" => WritesOfCall(t) = {}
            /\ pc[t] = "done" =>
                  /\ Cardinality(WritesOfCall(t)) = 1
                  /\ \A i \in WritesOfCall(t) :
                        /\ sinks[i].w = res[t].w
                        /\ sinks[i].data =
                              PrintRendered(t) \o
                                 (IF made[t].prog[2] = "Println" THEN <<LF>> ELSE <<>>)

\* a Println that read the old destination before SetOutput stored the new
\* one, and wrote its whole line to the old one afterwards
C30_Witness ==
    /\ made[1].prog = <<"SetOutput", Buffer>> /\ pc[1] = "done"
    /\ made[2].prog = <<"box", "Println">> /\ pc[2] = "done"
    /\ output = Buffer
    /\ Len(sinks) = 1 /\ sinks[1].w = Stdout
    /\ sinks[1].data = PrintRendered(2) \o <<LF>>


====
